---- MODULE Spec2Model ----
(***************************************************************************)
(* A model of the page-delivery pipeline of the manga viewer:              *)
(*   - CacheService   (src/src/services/cache/CacheService.ts)             *)
(*   - Library        (src/src/components/Library/Library.tsx)             *)
(*   - useStore       (src/unnamed/part_001)                               *)
(*   - usePageLoader  (src/unnamed/part_000, second version)               *)
(*   - FileLoader     (src/unnamed/part_004)                               *)
(* Several specifications share the variables; each one leaves the         *)
(* variables of the other components at their initial values.              *)
(***************************************************************************)
EXTENDS Integers, Sequences, FiniteSets, TLC

VARIABLES
    \* CacheService and the persistent store behind it
    idb,              \* the idb-keyval store: a function from the keys present to their values
    now,              \* the last value Date.now() returned
    lastOp,           \* the cache operation that completed last, with what it returned
    cacheCalls,       \* CacheService calls suspended at an await, with their local variables
    \* useStore (ViewerState)
    file,             \* the active MangaFile, or NoFile for null
    currentPageIndex,
    isLoading,
    error,
    pageUrls,         \* Record<number, string>: page index -> object URL
    downloadProgress,
    currentFileId,
    viewMode,
    localStorage,     \* window.localStorage: key -> string
    \* FileLoader, ZipLoader, PdfLoader
    currentLoader,
    zipLoader,
    pdfLoader,
    \* asynchronous work in flight
    loads,            \* store.loadFile calls awaiting fileLoader.loadFile
    decodes,          \* loadPage calls awaiting fileLoader.getPage (a bag)
    effectPending,    \* a dependency of the usePageLoader effect changed since its last run
    \* the browser's object URLs
    liveUrls,         \* created by URL.createObjectURL and not revoked
    \* Library
    click,            \* the Library click handler in progress and its outcome
    \* the user
    trip              \* a user's visit to one document and return to it: how far it got

cacheVars == <<idb, now, lastOp, cacheCalls>>

storeVars == <<file, currentPageIndex, isLoading, error, pageUrls, downloadProgress,
               currentFileId, viewMode, localStorage>>

loaderVars == <<currentLoader, zipLoader, pdfLoader>>

asyncVars == <<loads, decodes, effectPending, liveUrls>>

viewerVars == <<storeVars, loaderVars, asyncVars, trip>>

driverVars == <<click, trip>>

vars == <<cacheVars, viewerVars, driverVars>>

(***************************************************************************)
(* Bounds of the model.                                                    *)
(***************************************************************************)
\* Date.now() is capped; once reached, every later call returns the same value.
MaxClock == 3

\* CacheService calls that may be suspended at an await at the same time.
MaxCalls == 2

\* store.loadFile calls that may be awaiting the loader at the same time.
MaxLoads == 2

\* getPage calls that may be in flight for one page index at the same time; the
\* effect waits (React batches its triggers) while another run would exceed it.
MaxInFlight == 2

\* Object URLs that may be live at the same time; a decode does not settle with a
\* new URL while that many are live.
MaxLiveUrls == 12

\* The last page index of the document cleanupOldPages is applied to in
\* SpecCleanup.
MaxPage == 20

(***************************************************************************)
(* CacheService                                                            *)
(***************************************************************************)
MiB == 1024 * 1024

CACHE_LIMIT_BYTES == 500 * 1024 * 1024

META_KEY == "__cache_meta__"

fileKey(fileId) == "file:" \o fileId

\* The file identities the callers use (cloud file ids), the display name of each
\* and what its bytes hold: A is an archive of 4 images and a text file, B a PDF
\* of 3 pages, C an archive without any image.
FileIds == {"A", "B", "C"}

FileNameOf(fileId) ==
    CASE fileId = "A" -> "A.zip"
      [] fileId = "B" -> "B.PDF"
      [] OTHER        -> "C.zip"

\* A file of the local file picker: an archive of 2 images.
LocalFiles == {"D.cbz"}

KindOf(src) == IF src = "B" THEN "pdf" ELSE "zip"

\* An entry of zip.files: its name and whether it is a directory.
Entry(name) == [name |-> name, dir |-> FALSE]

Directory(name) == [name |-> name, dir |-> TRUE]

\* Object.values(zip.files) of each archive, in the order of the archive.
EntriesOf(src) ==
    CASE src = "A"     -> <<Entry("2.jpg"), Entry("10.jpg"), Entry("note.txt"),
                            Entry("1.jpg"), Entry("3.PNG")>>
      [] src = "D.cbz" -> <<Entry("b.gif"), Entry("a.webp")>>
      [] src = "C"     -> <<Directory("jpg/"), Entry("jpg/a.txt")>>
      [] OTHER         -> <<>>

\* The pages a parser finds in the bytes: the images of an archive, numPages of a
\* PDF.
PagesOf(src) ==
    CASE src = "A"     -> 4
      [] src = "B"     -> 3
      [] src = "D.cbz" -> 2
      [] OTHER         -> 0

\* Blob sizes: two that fit together, the ceiling itself, and one byte above it.
BlobSizes == {200 * MiB, 300 * MiB, CACHE_LIMIT_BYTES, CACHE_LIMIT_BYTES + 1}

\* The size of the download of each cloud file.
SizeOf(fileId) ==
    CASE fileId = "A" -> 200 * MiB
      [] fileId = "B" -> 300 * MiB
      [] OTHER        -> CACHE_LIMIT_BYTES

\* A Blob as response.blob() returns it: no name, no usable type; src names whose
\* bytes they are, kind, pages and entries what a parser finds in them.
Blob(fileId, size) ==
    [src |-> fileId, size |-> size, name |-> "", type |-> "",
     kind |-> KindOf(fileId), pages |-> PagesOf(fileId), entries |-> EntriesOf(fileId)]

\* A File of the file picker, which has a name.
LocalFile(name) ==
    [src |-> name, size |-> MiB, name |-> name, type |-> "",
     kind |-> KindOf(name), pages |-> PagesOf(name), entries |-> EntriesOf(name)]

\* idb-keyval set(key, val) and del(key) on the store db.
IdbSet(db, key, val) == [k \in (DOMAIN db) \cup {key} |-> IF k = key THEN val ELSE db[k]]

IdbDel(db, key) == [k \in (DOMAIN db) \ {key} |-> db[k]]

getMeta(db) == IF META_KEY \in DOMAIN db THEN db[META_KEY] ELSE [files |-> <<>>]

saveMeta(db, meta) == IdbSet(db, META_KEY, meta)

RECURSIVE SumSizes(_)
SumSizes(files) ==
    IF files = <<>> THEN 0 ELSE Head(files).totalSize + SumSizes(Tail(files))

\* meta.files.find(f => f.fileId === fileId): the index of the first match, 0 if none.
FindIndex(files, fileId) ==
    LET hits == {i \in 1..Len(files) : files[i].fileId = fileId}
    IN  IF hits = {} THEN 0 ELSE CHOOSE i \in hits : \A j \in hits : i <= j

\* meta.files.splice(idx, 1)
Splice(files, idx) ==
    [i \in 1..(Len(files) - 1) |-> IF i < idx THEN files[i] ELSE files[i + 1]]

\* Array.prototype.sort is stable: an element goes behind every element that does
\* not compare greater.
RECURSIVE InsertAscending(_, _)
InsertAscending(f, sorted) ==
    IF sorted = <<>> THEN <<f>>
    ELSE IF Head(sorted).lastAccessed <= f.lastAccessed
         THEN <<Head(sorted)>> \o InsertAscending(f, Tail(sorted))
         ELSE <<f>> \o sorted

RECURSIVE InsertDescending(_, _)
InsertDescending(f, sorted) ==
    IF sorted = <<>> THEN <<f>>
    ELSE IF Head(sorted).lastAccessed >= f.lastAccessed
         THEN <<Head(sorted)>> \o InsertDescending(f, Tail(sorted))
         ELSE <<f>> \o sorted

RECURSIVE SortNewestFirst(_)
SortNewestFirst(files) ==
    IF files = <<>> THEN <<>>
    ELSE InsertDescending(files[Len(files)], SortNewestFirst(SubSeq(files, 1, Len(files) - 1)))

\* [...meta.files].sort((a, b) => a.lastAccessed - b.lastAccessed)
RECURSIVE SortOldestFirst(_)
SortOldestFirst(files) ==
    IF files = <<>> THEN <<>>
    ELSE InsertAscending(files[Len(files)], SortOldestFirst(SubSeq(files, 1, Len(files) - 1)))

\* The loop of evictIfNeeded over the sorted copy: the payload and the metadata
\* entry of each file go together, until freed >= needed.
RECURSIVE EvictLoop(_, _, _, _, _)
EvictLoop(sorted, db, files, freed, needed) ==
    IF sorted = <<>> \/ freed >= needed
    THEN [db |-> db, files |-> files, evicted |-> <<>>]
    ELSE LET entry == Head(sorted)
             idx  == FindIndex(files, entry.fileId)
             rest == EvictLoop(Tail(sorted),
                               IdbDel(db, fileKey(entry.fileId)),
                               IF idx >= 1 THEN Splice(files, idx) ELSE files,
                               freed + entry.totalSize,
                               needed)
         IN  [rest EXCEPT !.evicted = <<entry>> \o @]

evictIfNeeded(db, files, newFileSize) ==
    LET currentTotal == SumSizes(files)
    IN  IF currentTotal + newFileSize <= CACHE_LIMIT_BYTES
        THEN [db |-> db, files |-> files, evicted |-> <<>>]
        ELSE EvictLoop(SortOldestFirst(files), db, files, 0,
                       currentTotal + newFileSize - CACHE_LIMIT_BYTES)

ExceedsLimitOffByMiB(estimatedSize) == estimatedSize > CACHE_LIMIT_BYTES + MiB

\* saveFile's admission test on blob.size.
ExceedsLimit(estimatedSize) == estimatedSize > CACHE_LIMIT_BYTES

\* An update of the existing entry that leaves its size alone.
TouchedOnly(existing, estimatedSize, t) == [existing EXCEPT !.lastAccessed = t]

\* saveFile's update of the existing entry.
Updated(existing, estimatedSize, t) ==
    [existing EXCEPT !.lastAccessed = t, !.totalSize = estimatedSize]

\* saveFile(fileId, fileName, blob) with Date.now() = t: the store afterwards, the
\* value returned and the entries evicted on the way.
saveFile(db, fileId, fileName, blob, t) ==
    LET estimatedSize == blob.size
        meta     == getMeta(db)
        existing == FindIndex(meta.files, fileId)
    IN  IF ExceedsLimit(estimatedSize)
        THEN [db |-> db, ret |-> FALSE, evicted |-> <<>>]
        ELSE IF existing >= 1
        THEN LET files == [meta.files EXCEPT
                               ![existing] = Updated(meta.files[existing], estimatedSize, t)]
             IN  [db |-> IdbSet(saveMeta(db, [files |-> files]), fileKey(fileId), blob),
                  ret |-> TRUE, evicted |-> <<>>]
        ELSE LET ev    == evictIfNeeded(db, meta.files, estimatedSize)
                 files == Append(ev.files, [fileId |-> fileId, fileName |-> fileName,
                                            totalSize |-> estimatedSize, lastAccessed |-> t])
             IN  [db |-> IdbSet(saveMeta(ev.db, [files |-> files]), fileKey(fileId), blob),
                  ret |-> TRUE, evicted |-> ev.evicted]

\* getFile(fileId) with Date.now() = t: a hit refreshes lastAccessed.
getFile(db, fileId, t) ==
    IF fileKey(fileId) \in DOMAIN db
    THEN LET meta == getMeta(db)
             idx  == FindIndex(meta.files, fileId)
         IN  [db |-> IF idx >= 1
                     THEN saveMeta(db, [files |-> [meta.files EXCEPT ![idx].lastAccessed = t]])
                     ELSE db,
              hit |-> TRUE]
    ELSE [db |-> db, hit |-> FALSE]

\* hasFile(fileId), getCachedFiles() and getUsageMB(): total / 1024 / 1024 as the
\* whole MiB and the bytes beyond them.
hasFile(db, fileId) == FindIndex(getMeta(db).files, fileId) >= 1

getCachedFiles(db) == getMeta(db).files

getUsageMB(db) ==
    LET total == SumSizes(getMeta(db).files)
    IN  [whole |-> total \div MiB, bytes |-> total % MiB]

\* A test that takes the payloads of files for legacy keys too.
IsFileOrPageKey(key) == Len(key) >= 5 /\ SubSeq(key, 1, 5) \in {"file:", "page:"}

\* cleanupLegacyPageCache(): typeof key === 'string' && key.startsWith('page:')
IsLegacyPageKey(key) == Len(key) >= 5 /\ SubSeq(key, 1, 5) = "page:"

\* del(key)
del(db, key) == [k \in DOMAIN db \ {key} |-> db[k]]

\* The keys of the payloads only.
IsPayloadKey(key) == Len(key) >= 5 /\ SubSeq(key, 1, 5) \in {"file:", "page:"}

\* clearAll(): every key the service owns is deleted.
IsCacheKey(key) ==
    \/ key = META_KEY
    \/ Len(key) >= 5 /\ SubSeq(key, 1, 5) \in {"file:", "page:"}

clearAll(db) == [k \in {x \in DOMAIN db : ~IsCacheKey(x)} |-> db[k]]

(***************************************************************************)
(* JavaScript values and string functions the code relies on.              *)
(***************************************************************************)
\* null and undefined.
Null == "null"

\* a || b on strings: null, undefined and "" are falsy.
OrElse(a, b) == IF a # Null /\ a # "" THEN a ELSE b

Char(s, i) == SubSeq(s, i, i)

Digits == "0123456789"

IsDigit(c) == \E d \in 1..10 : Char(Digits, d) = c

DigitValue(c) == (CHOOSE d \in 1..10 : Char(Digits, d) = c) - 1

\* Number.prototype.toString() of an integer.
RECURSIVE NatToString(_)
NatToString(n) ==
    IF n < 10 THEN Char(Digits, n + 1)
    ELSE NatToString(n \div 10) \o Char(Digits, (n % 10) + 1)

NumberToString(n) == IF n < 0 THEN "-" \o NatToString(-n) ELSE NatToString(n)

\* parseInt(s, 10): leading blanks, an optional sign, then the longest run of
\* digits; NaN when there is no digit.
RECURSIVE SkipBlanks(_, _)
SkipBlanks(s, i) ==
    IF i <= Len(s) /\ Char(s, i) = " " THEN SkipBlanks(s, i + 1) ELSE i

RECURSIVE DigitRun(_, _, _)
DigitRun(s, i, acc) ==
    IF i <= Len(s) /\ IsDigit(Char(s, i))
    THEN DigitRun(s, i + 1, [n |-> acc.n + 1, value |-> acc.value * 10 + DigitValue(Char(s, i))])
    ELSE acc

ParseInt(s) ==
    LET i    == SkipBlanks(s, 1)
        sign == IF i <= Len(s) /\ Char(s, i) = "-" THEN -1 ELSE 1
        j    == IF i <= Len(s) /\ Char(s, i) \in {"-", "+"} THEN i + 1 ELSE i
        run  == DigitRun(s, j, [n |-> 0, value |-> 0])
    IN  [isNaN |-> run.n = 0, value |-> sign * run.value]

UpperCase == "ABCDEFGHIJKLMNOPQRSTUVWXYZ"

LowerCase == "abcdefghijklmnopqrstuvwxyz"

\* String.prototype.toLowerCase() on ASCII letters.
LowerOf == [c \in {Char(UpperCase, k) : k \in 1..26} |->
                Char(LowerCase, CHOOSE k \in 1..26 : Char(UpperCase, k) = c)]

RECURSIVE LowerFrom(_, _)
LowerFrom(s, i) ==
    IF i > Len(s) THEN ""
    ELSE LET c == Char(s, i)
         IN  (IF c \in DOMAIN LowerOf THEN LowerOf[c] ELSE c) \o LowerFrom(s, i + 1)

ToLowerCase(s) == LowerFrom(s, 1)

EndsWith(s, suffix) ==
    Len(s) >= Len(suffix) /\ SubSeq(s, Len(s) - Len(suffix) + 1, Len(s)) = suffix

Max(a, b) == IF a >= b THEN a ELSE b

Min(a, b) == IF a <= b THEN a ELSE b

Abs(x) == IF x < 0 THEN -x ELSE x

Range(f) == {f[x] : x \in DOMAIN f}

(***************************************************************************)
(* ZipLoader, PdfLoader and FileLoader                                     *)
(***************************************************************************)
\* file === null in the store.
NoFile == [fileName |-> "", totalPages |-> 0, pages |-> <<>>]

\* A MangaFile: pages is the list of page names.
MangaFile(fileName, totalPages, pages) ==
    [fileName |-> fileName, totalPages |-> totalPages, pages |-> pages]

ZipUnloaded == [zip |-> Null, imageEntries |-> <<>>]

PdfUnloaded == [pdfDoc |-> Null, numPages |-> 0, fileName |-> ""]

Rejected(z, message) == [ok |-> FALSE, state |-> z, message |-> message, file |-> NoFile]

Resolved(z, mangaFile) == [ok |-> TRUE, state |-> z, message |-> "", file |-> mangaFile]

ImageExtensions == {"jpg", "jpeg", "png", "gif", "webp"}

\* /\.(jpg|jpeg|png|gif|webp)$/i.test(name)
IsImageName(name) ==
    LET lower == ToLowerCase(name)
    IN  \E ext \in ImageExtensions : EndsWith(lower, "." \o ext)

\* Every non-directory entry counts as an image.
IsAnyFile(entry) == ~entry.dir

\* The filter of ZipLoader.loadFile on an entry of zip.files.
IsImageEntry(entry) == ~entry.dir /\ IsImageName(entry.name)

\* The order of the characters of entry names under localeCompare with
\* sensitivity 'base': punctuation, then digits, then letters, upper and lower
\* case alike.
CollationOrder == "_-/.0123456789abcdefghijklmnopqrstuvwxyz"

CollationRank ==
    [c \in {Char(CollationOrder, k) : k \in 1..Len(CollationOrder)} |->
        CHOOSE k \in 1..Len(CollationOrder) : Char(CollationOrder, k) = c]

RankOf(c) ==
    LET l == IF c \in DOMAIN LowerOf THEN LowerOf[c] ELSE c
    IN  IF l \in DOMAIN CollationRank THEN CollationRank[l] ELSE 0

Sign(x) == IF x < 0 THEN -1 ELSE IF x > 0 THEN 1 ELSE 0

\* a.localeCompare(b) character by character, from position i of a and j of b.
RECURSIVE PlainCompareFrom(_, _, _, _)
PlainCompareFrom(a, i, b, j) ==
    IF i > Len(a) /\ j > Len(b) THEN 0
    ELSE IF i > Len(a) THEN -1
    ELSE IF j > Len(b) THEN 1
    ELSE IF RankOf(Char(a, i)) # RankOf(Char(b, j))
         THEN Sign(RankOf(Char(a, i)) - RankOf(Char(b, j)))
         ELSE PlainCompareFrom(a, i + 1, b, j + 1)

PlainCompare(a, b) == PlainCompareFrom(a, 1, b, 1)

\* a.localeCompare(b, undefined, { numeric: true, sensitivity: 'base' }), from
\* position i of a and j of b: a run of digits compares by its value.
RECURSIVE NaturalCompareFrom(_, _, _, _)
NaturalCompareFrom(a, i, b, j) ==
    IF i > Len(a) /\ j > Len(b) THEN 0
    ELSE IF i > Len(a) THEN -1
    ELSE IF j > Len(b) THEN 1
    ELSE IF IsDigit(Char(a, i)) /\ IsDigit(Char(b, j))
         THEN LET ra == DigitRun(a, i, [n |-> 0, value |-> 0])
                  rb == DigitRun(b, j, [n |-> 0, value |-> 0])
              IN  IF ra.value # rb.value THEN Sign(ra.value - rb.value)
                  ELSE NaturalCompareFrom(a, i + ra.n, b, j + rb.n)
         ELSE IF RankOf(Char(a, i)) # RankOf(Char(b, j))
              THEN Sign(RankOf(Char(a, i)) - RankOf(Char(b, j)))
              ELSE NaturalCompareFrom(a, i + 1, b, j + 1)

NaturalCompare(a, b) == NaturalCompareFrom(a, 1, b, 1)

\* entries.sort(compare): stable, an entry goes behind every entry that does not
\* compare greater.
RECURSIVE InsertNatural(_, _)
InsertNatural(entry, sorted) ==
    IF sorted = <<>> THEN <<entry>>
    ELSE IF NaturalCompare(Head(sorted).name, entry.name) <= 0
         THEN <<Head(sorted)>> \o InsertNatural(entry, Tail(sorted))
         ELSE <<entry>> \o sorted

RECURSIVE SortNatural(_)
SortNatural(entries) ==
    IF entries = <<>> THEN <<>>
    ELSE InsertNatural(entries[Len(entries)],
                       SortNatural(SubSeq(entries, 1, Len(entries) - 1)))

\* Array.prototype.filter, and e => e.name mapped over a list of entries.
RECURSIVE FilterImages(_)
FilterImages(entries) ==
    IF entries = <<>> THEN <<>>
    ELSE (IF IsImageEntry(Head(entries)) THEN <<Head(entries)>> ELSE <<>>)
             \o FilterImages(Tail(entries))

EntryNames(entries) == [k \in 1..Len(entries) |-> entries[k].name]

\* this.imageEntries of ZipLoader.loadFile, as names.
ZipImageEntries(entries) == EntryNames(SortNatural(FilterImages(entries)))

\* The image entries of the archives of the library, computed once.
LibraryImageEntries ==
    [src \in FileIds \cup LocalFiles |-> ZipImageEntries(EntriesOf(src))]

ImageEntriesIn(blob) ==
    IF blob.src \in DOMAIN LibraryImageEntries /\ blob.entries = EntriesOf(blob.src)
    THEN LibraryImageEntries[blob.src]
    ELSE ZipImageEntries(blob.entries)

\* ZipLoader.loadFile(file) once JSZip.loadAsync has settled.
ZipLoadFile(z, blob) ==
    IF blob.kind # "zip"
    THEN Rejected(z, "Can't find end of central directory")
    ELSE LET loaded == [zip |-> blob.src, imageEntries |-> ImageEntriesIn(blob)]
         IN  IF Len(loaded.imageEntries) = 0
             THEN Rejected(loaded, "No images found in the archive.")
             ELSE Resolved(loaded, MangaFile(OrElse(blob.name, "unknown.zip"),
                                             Len(loaded.imageEntries),
                                             loaded.imageEntries))

\* PdfLoader.loadFile(file) up to its first await, and once getDocument has settled.
PdfLoadFileBegin(p, blob) == [p EXCEPT !.fileName = OrElse(blob.name, "unknown.pdf")]

\* Array.from({ length: totalPages }).map((_, i) => `Page_${i + 1}`)
PdfPageNames(totalPages) == [i \in 1..totalPages |-> "Page_" \o NumberToString(i)]

PdfLoadFile(p, blob) ==
    IF blob.kind # "pdf"
    THEN Rejected(p, "Invalid PDF structure.")
    ELSE LET loaded == [p EXCEPT !.pdfDoc = blob.src, !.numPages = blob.pages]
         IN  IF blob.pages = 0
             THEN Rejected(loaded, "No pages found in the PDF.")
             ELSE Resolved(loaded, MangaFile(p.fileName, blob.pages,
                                             PdfPageNames(blob.pages)))

\* A choice of backend that compares the suffix as written.
IsPdfSameCase(blob, fileName) ==
    LET name == OrElse(blob.name, OrElse(fileName, ""))
    IN  EndsWith(name, ".pdf") \/ blob.type = "application/pdf"

\* FileLoader.loadFile: the backend chosen from the name and the blob's type.
IsPdf(blob, fileName) ==
    LET name == OrElse(blob.name, OrElse(fileName, ""))
    IN  EndsWith(ToLowerCase(name), ".pdf") \/ blob.type = "application/pdf"

\* getPage up to its first await: it throws message, or goes on to decode the
\* page from src.
PageRefused(message) == [ok |-> FALSE, src |-> Null, message |-> message]

PageDecoding(src) == [ok |-> TRUE, src |-> src, message |-> ""]

\* `Page ${index}`, computed once for the indices around a document.
PageLabels == [index \in (-2)..(MaxPage + 2) |-> "Page " \o NumberToString(index)]

PageLabel(index) ==
    IF index \in DOMAIN PageLabels THEN PageLabels[index]
    ELSE "Page " \o NumberToString(index)

ZipRefusals == [index \in DOMAIN PageLabels |->
                    PageRefused(PageLabels[index] \o " not found or ZIP not loaded.")]

PdfRefusals == [index \in DOMAIN PageLabels |->
                    PageRefused(PageLabels[index] \o " not found.")]

\* A ZipLoader.getPage that takes a negative index for the first page.
ZipGetPageFromZero(z, index) ==
    IF z.zip = Null \/ index >= Len(z.imageEntries) \/ z.imageEntries = <<>>
    THEN PageRefused(PageLabel(index) \o " not found or ZIP not loaded.")
    ELSE PageDecoding(z.zip \o "/" \o z.imageEntries[Max(index, 0) + 1])

\* ZipLoader.getPage(index): this.imageEntries[index] is the entry decoded.
ZipGetPage(z, index) ==
    IF z.zip = Null \/ index < 0 \/ index >= Len(z.imageEntries)
    THEN IF index \in DOMAIN ZipRefusals THEN ZipRefusals[index]
         ELSE PageRefused(PageLabel(index) \o " not found or ZIP not loaded.")
    ELSE PageDecoding(z.zip \o "/" \o z.imageEntries[index + 1])

\* PdfLoader.getPage(index): page index + 1 of the document is rendered.
PdfGetPage(p, index) ==
    IF p.pdfDoc = Null THEN PageRefused("PDF not loaded.")
    ELSE IF index + 1 < 1 \/ index + 1 > p.numPages
         THEN IF index \in DOMAIN PdfRefusals THEN PdfRefusals[index]
              ELSE PageRefused(PageLabel(index) \o " not found.")
         ELSE PageDecoding(p.pdfDoc \o "#" \o NumberToString(index + 1))

\* A facade that takes the ZIP backend whenever the PDF backend is not active.
FileLoaderGetPageDefaultZip(loader, z, p, index) ==
    IF loader = "pdf" THEN PdfGetPage(p, index) ELSE ZipGetPage(z, index)

\* FileLoader.getPage(index)
FileLoaderGetPage(loader, z, p, index) ==
    IF loader = "pdf" THEN PdfGetPage(p, index)
    ELSE IF loader = "zip" THEN ZipGetPage(z, index)
    ELSE PageRefused("No file is currently loaded.")

(***************************************************************************)
(* useStore                                                                *)
(***************************************************************************)
NoUrls == [i \in {} |-> Null]

LsGet(ls, key) == IF key \in DOMAIN ls THEN ls[key] ELSE Null

LsSet(ls, key, val) == [k \in (DOMAIN ls) \cup {key} |-> IF k = key THEN val ELSE ls[k]]

BookmarkKey(key) == "bookmark_" \o key

ParsedInBoundsInclusive(parsed, totalPages) ==
    ~parsed.isNaN /\ parsed.value >= 0 /\ parsed.value <= totalPages

\* loadFile: !isNaN(parsed) && parsed >= 0 && parsed < mangaFile.totalPages
ParsedInBounds(parsed, totalPages) ==
    ~parsed.isNaN /\ parsed.value >= 0 /\ parsed.value < totalPages

\* loadFile's bookmark restore: the page index the document opens at.
RestoredIndex(ls, fid, mangaFile) ==
    LET key == OrElse(fid, mangaFile.fileName)
        stored  == LsGet(ls, BookmarkKey(key))
    IN  IF key \in {Null, ""} \/ stored \in {Null, ""}
        THEN 0
        ELSE IF ParsedInBounds(ParseInt(stored), mangaFile.totalPages)
             THEN ParseInt(stored).value
             ELSE 0

\* setPage / nextPage / prevPage: the bookmark written for newIndex.
SaveBookmark(ls, fid, f, newIndex) ==
    LET key == OrElse(fid, f.fileName)
    IN  IF key \in {Null, ""} THEN ls
        ELSE LsSet(ls, BookmarkKey(key), NumberToString(newIndex))

ClampLow(index, totalPages) == Max(0, index)

\* setPage: Math.max(0, Math.min(index, file.totalPages - 1))
Clamp(index, totalPages) == Max(0, Min(index, totalPages - 1))

KeepsPageStrict(pageIdx, currentIndex, distance) == ~(Abs(pageIdx - currentIndex) >= distance)

\* cleanupOldPages: an entry stays unless Math.abs(pageIdx - currentIndex) > distance.
KeepsPage(pageIdx, currentIndex, distance) == ~(Abs(pageIdx - currentIndex) > distance)

\* cleanupOldPages(currentIndex, distance) on the map urls: the map afterwards,
\* the URLs revoked, and whether the store was given a new map.
cleanupOldPages(urls, currentIndex, distance) ==
    LET kept == {k \in DOMAIN urls :
                    KeepsPage(ParseInt(NumberToString(k)).value, currentIndex, distance)}
    IN  [pageUrls |-> IF kept = DOMAIN urls THEN urls ELSE [k \in kept |-> urls[k]],
         revoked  |-> {urls[k] : k \in (DOMAIN urls) \ kept},
         changed  |-> kept # DOMAIN urls]

\* A setPageUrl that appends: the URL goes to the first free key.
setPageUrlInOrder(urls, index, url) ==
    LET slot == Cardinality(DOMAIN urls)
    IN  [k \in (DOMAIN urls) \cup {slot} |-> IF k = slot THEN url ELSE urls[k]]

\* A setPageUrl that stores nothing.
setPageUrlDropped(urls, index, url) == urls

\* setPageUrl(index, url)
setPageUrl(urls, index, url) ==
    [k \in (DOMAIN urls) \cup {index} |-> IF k = index THEN url ELSE urls[k]]

\* A release that revokes nothing.
RevokeNone(live, urls) == live

\* Object.values(pageUrls).forEach(url => URL.revokeObjectURL(url)) on the live
\* URLs of the browser.
RevokeAll(live, urls) == live \ Range(urls)

\* Library: setCurrentFileId(fid); loadFile(blob, fileName) -- up to the await of
\* fileLoader.loadFile, which has chosen the backend by then. downloadProgress is
\* left to the caller.
OpenDocument(fid, blob, fileName) ==
    LET actualFileName == OrElse(fileName, OrElse(blob.name, OrElse(fid, Null)))
        pdf == IsPdf(blob, actualFileName)
    IN  /\ Len(loads) < MaxLoads
        /\ currentFileId' = fid
        /\ liveUrls' = RevokeAll(liveUrls, pageUrls)
        /\ isLoading' = TRUE
        /\ error' = Null
        /\ pageUrls' = NoUrls
        /\ currentLoader' = IF pdf THEN "pdf" ELSE "zip"
        /\ pdfLoader' = IF pdf THEN PdfLoadFileBegin(pdfLoader, blob) ELSE pdfLoader
        /\ loads' = Append(loads, [blob |-> blob, fid |-> fid,
                                   loader |-> IF pdf THEN "pdf" ELSE "zip"])
        /\ effectPending' = TRUE
        /\ UNCHANGED <<file, currentPageIndex, viewMode, localStorage, zipLoader, decodes>>

RemoveAt(seq, i) == [k \in 1..(Len(seq) - 1) |-> IF k < i THEN seq[k] ELSE seq[k + 1]]

\* The rest of loadFile once fileLoader.loadFile has settled for the i-th call in
\* flight: the backend's state, then the store's.
FacadeLoadResult(call) ==
    IF call.loader = "pdf" THEN PdfLoadFile(pdfLoader, call.blob)
    ELSE ZipLoadFile(zipLoader, call.blob)

LoadFileSettle(i) ==
    LET call == loads[i]
        r    == FacadeLoadResult(call)
    IN  /\ loads' = RemoveAt(loads, i)
        /\ zipLoader' = IF call.loader = "zip" THEN r.state ELSE zipLoader
        /\ pdfLoader' = IF call.loader = "pdf" THEN r.state ELSE pdfLoader
        /\ isLoading' = FALSE
        /\ IF r.ok
           THEN /\ file' = r.file
                /\ currentPageIndex' = RestoredIndex(localStorage, call.fid, r.file)
                /\ effectPending' = TRUE
                /\ UNCHANGED error
           ELSE /\ error' = OrElse(r.message, "Failed to load file")
                /\ UNCHANGED <<file, currentPageIndex, effectPending>>
        /\ UNCHANGED <<pageUrls, downloadProgress, currentFileId, viewMode, localStorage,
                       currentLoader, decodes, liveUrls>>

CloseFile ==
    /\ liveUrls' = RevokeAll(liveUrls, pageUrls)
    /\ zipLoader' = IF currentLoader = "zip" THEN ZipUnloaded ELSE zipLoader
    /\ pdfLoader' = IF currentLoader = "pdf"
                    THEN [pdfLoader EXCEPT !.pdfDoc = Null, !.numPages = 0]
                    ELSE pdfLoader
    /\ currentLoader' = Null
    /\ file' = NoFile
    /\ currentPageIndex' = 0
    /\ error' = Null
    /\ pageUrls' = NoUrls
    /\ downloadProgress' = -1
    /\ currentFileId' = Null
    /\ effectPending' = TRUE
    /\ UNCHANGED <<isLoading, viewMode, localStorage, loads, decodes>>

\* What setPage, nextPage and prevPage do with the index they arrive at.
MoveTo(newIndex) ==
    /\ currentPageIndex' = newIndex
    /\ localStorage' = SaveBookmark(localStorage, currentFileId, file, newIndex)
    /\ effectPending' = (effectPending \/ newIndex # currentPageIndex)
    /\ UNCHANGED <<file, isLoading, error, pageUrls, downloadProgress, currentFileId,
                   viewMode, loaderVars, loads, decodes, liveUrls>>

SetPage(index) ==
    IF file = NoFile
    THEN UNCHANGED viewerVars
    ELSE MoveTo(Clamp(index, file.totalPages))

AtLastPageOff(f, index) == ~(index < f.totalPages)

\* nextPage: the negation of currentPageIndex < file.totalPages - 1
AtLastPage(f, index) == ~(index < f.totalPages - 1)

NextPage ==
    IF file # NoFile /\ ~AtLastPage(file, currentPageIndex)
    THEN MoveTo(currentPageIndex + 1)
    ELSE UNCHANGED viewerVars

PrevPage ==
    IF currentPageIndex > 0
    THEN MoveTo(currentPageIndex - 1)
    ELSE UNCHANGED viewerVars

SetViewMode(mode) ==
    /\ viewMode' = mode
    /\ localStorage' = LsSet(localStorage, "viewer_viewMode", mode)
    /\ effectPending' = (effectPending \/ mode # viewMode)
    /\ UNCHANGED <<file, currentPageIndex, isLoading, error, pageUrls, downloadProgress,
                   currentFileId, loaderVars, loads, decodes, liveUrls>>

(***************************************************************************)
(* usePageLoader                                                           *)
(***************************************************************************)
BASE_PREFETCH_RANGE == 2

BASE_CLEANUP_DISTANCE == 5

PrefetchRange(mode) ==
    IF mode = "vertical" THEN BASE_PREFETCH_RANGE * 2 ELSE BASE_PREFETCH_RANGE

CleanupDistanceBelowRange(mode) == PrefetchRange(mode) - 1

CleanupDistance(mode) ==
    IF mode = "vertical" THEN BASE_CLEANUP_DISTANCE * 2 ELSE BASE_CLEANUP_DISTANCE

\* The indices the effect calls loadPage with.
LoadPageCalls(current, range) ==
    {current} \cup UNION {{current + i, current - i} : i \in 1..range}

LoadPagePassesUpperOff(f, urls, index) ==
    ~(index < 0 \/ index > f.totalPages) /\ index \notin DOMAIN urls

\* loadPage(index) goes on to fileLoader.getPage(index).
LoadPagePasses(f, urls, index) ==
    ~(index < 0 \/ index >= f.totalPages) /\ index \notin DOMAIN urls

\* The bag of getPage calls in flight: each with the page index asked for and the
\* source it decodes from.
BagAdd(bag, d) ==
    [x \in (DOMAIN bag) \cup {d} |->
        IF x = d THEN (IF d \in DOMAIN bag THEN bag[d] + 1 ELSE 1) ELSE bag[x]]

BagRemove(bag, d) ==
    IF bag[d] > 1 THEN [bag EXCEPT ![d] = @ - 1]
    ELSE [x \in (DOMAIN bag) \ {d} |-> bag[x]]

RECURSIVE BagAddAll(_, _)
BagAddAll(bag, ds) ==
    IF ds = {} THEN bag
    ELSE LET d == CHOOSE x \in ds : TRUE
         IN  BagAddAll(BagAdd(bag, d), ds \ {d})

RECURSIVE BagSum(_, _)
BagSum(bag, ds) ==
    IF ds = {} THEN 0
    ELSE LET d == CHOOSE x \in ds : TRUE
         IN  bag[d] + BagSum(bag, ds \ {d})

\* The getPage calls in flight for page index.
InFlight(bag, index) == BagSum(bag, {d \in DOMAIN bag : d.index = index})

\* One run of the effect: loadPage for the current page and its neighbours, then
\* cleanupOldPages.
RunEffect ==
    /\ effectPending
    /\ IF file = NoFile
       THEN /\ effectPending' = FALSE
            /\ UNCHANGED <<storeVars, loaderVars, loads, decodes, liveUrls, cacheVars, driverVars>>
       ELSE LET calls    == LoadPageCalls(currentPageIndex, PrefetchRange(viewMode))
                passing  == {i \in calls : LoadPagePasses(file, pageUrls, i)}
                started  == {[index |-> i,
                              src |-> FileLoaderGetPage(currentLoader, zipLoader,
                                                        pdfLoader, i).src]
                                : i \in passing}
                c        == cleanupOldPages(pageUrls, currentPageIndex, CleanupDistance(viewMode))
            IN  /\ \A i \in passing : InFlight(decodes, i) < MaxInFlight
                /\ decodes' = BagAddAll(decodes, started)
                /\ pageUrls' = c.pageUrls
                /\ liveUrls' = liveUrls \ c.revoked
                /\ effectPending' = c.changed
                /\ UNCHANGED <<file, currentPageIndex, isLoading, error, downloadProgress,
                               currentFileId, viewMode, localStorage, loaderVars, loads,
                               cacheVars, driverVars>>

\* URL.createObjectURL: a URL no live URL and no entry of the map equals.
CreateObjectURL(d) ==
    LET used == liveUrls \cup Range(pageUrls)
        n    == CHOOSE k \in 0..(2 * MaxLiveUrls + 1) :
                    /\ [index |-> d.index, src |-> d.src, n |-> k] \notin used
                    /\ \A j \in 0..(k - 1) : [index |-> d.index, src |-> d.src, n |-> j] \in used
    IN  [index |-> d.index, src |-> d.src, n |-> n]

\* A getPage call settles: with a URL, which loadPage hands to setPageUrl, or with
\* an error, which loadPage logs. A call the loader refused at once (src is Null)
\* can only reject.
DecodeResolves(d) ==
    /\ d \in DOMAIN decodes
    /\ d.src # Null
    /\ Cardinality(liveUrls) < MaxLiveUrls
    /\ decodes' = BagRemove(decodes, d)
    /\ liveUrls' = liveUrls \cup {CreateObjectURL(d)}
    /\ pageUrls' = setPageUrl(pageUrls, d.index, CreateObjectURL(d))
    /\ effectPending' = TRUE
    /\ UNCHANGED <<file, currentPageIndex, isLoading, error, downloadProgress,
                   currentFileId, viewMode, localStorage, loaderVars, loads, cacheVars, driverVars>>

\* A rejection that reaches the store's error.
DecodeRejectsIntoError(d) ==
    /\ d \in DOMAIN decodes
    /\ decodes' = BagRemove(decodes, d)
    /\ error' = "Failed to load page"
    /\ UNCHANGED <<file, currentPageIndex, isLoading, pageUrls, downloadProgress,
                   currentFileId, viewMode, localStorage, loaderVars, loads, effectPending,
                   liveUrls, cacheVars, driverVars>>

DecodeRejects(d) ==
    /\ d \in DOMAIN decodes
    /\ decodes' = BagRemove(decodes, d)
    /\ UNCHANGED <<storeVars, loaderVars, loads, effectPending, liveUrls, cacheVars, driverVars>>

(***************************************************************************)
(* Library: handleCloudFileClick and handleBoxItemClick (a file item)      *)
(***************************************************************************)
\* Date.now() never goes back; two calls may fall into the same millisecond.
ClockValues == {t \in {now, now + 1} : t <= MaxClock}

OpRecord(op, fileId, size, ret, evicted) ==
    [op |-> op, fileId |-> fileId, size |-> size, ret |-> ret, evicted |-> evicted]

NoBlob ==
    [src |-> Null, size |-> 0, name |-> "", type |-> "", kind |-> Null, pages |-> 0,
     entries |-> <<>>]

\* No visit under way.
TripIdle == [pc |-> "idle", fileId |-> Null, paged |-> FALSE, k |-> 0]

ClickIdle ==
    [pc |-> "idle", provider |-> Null, fileId |-> Null, blob |-> NoBlob,
     downloaded |-> FALSE, opened |-> FALSE, alerted |-> FALSE, navigated |-> FALSE]

\* saveFile when the persistent store fails it at one of its awaits: the store as
\* the completed awaits left it.
saveFileThrows(db, fileId, fileName, blob, t, failedAwait) ==
    LET meta     == getMeta(db)
        existing == FindIndex(meta.files, fileId)
        ev       == evictIfNeeded(db, meta.files, blob.size)
        files    == IF existing >= 1
                    THEN [meta.files EXCEPT
                              ![existing] = Updated(meta.files[existing], blob.size, t)]
                    ELSE Append(ev.files, [fileId |-> fileId, fileName |-> fileName,
                                           totalSize |-> blob.size, lastAccessed |-> t])
    IN  CASE failedAwait = "getMeta"  -> db
          [] failedAwait = "saveMeta" -> IF existing >= 1 THEN db ELSE ev.db
          [] OTHER                    -> saveMeta(IF existing >= 1 THEN db ELSE ev.db,
                                                  [files |-> files])

FailedAwaits == {"getMeta", "saveMeta", "set"}

\* The catch and finally blocks of the handler.
HandlerFails ==
    /\ click' = [click EXCEPT !.pc = "done", !.alerted = TRUE]
    /\ downloadProgress' = IF click.provider = "box" THEN -1 ELSE downloadProgress

ClickFile(provider, fileId) ==
    /\ click.pc \in {"idle", "done"}
    /\ click' = [ClickIdle EXCEPT !.pc = "getFile", !.provider = provider, !.fileId = fileId]
    /\ downloadProgress' = IF provider = "box" THEN 0 ELSE downloadProgress
    /\ UNCHANGED <<cacheVars, file, currentPageIndex, isLoading, error, pageUrls,
                   currentFileId, viewMode, localStorage, loaderVars, asyncVars, trip>>

\* let blob = await cacheService.getFile(fileId)
HandlerGetFile ==
    /\ click.pc = "getFile"
    /\ \/ /\ HandlerFails
          /\ UNCHANGED cacheVars
       \/ \E t \in ClockValues :
            LET r == getFile(idb, click.fileId, t)
            IN  /\ idb' = r.db
                /\ now' = t
                /\ lastOp' = OpRecord("getFile", click.fileId, 0, r.hit, <<>>)
                /\ click' = IF r.hit
                            THEN [click EXCEPT !.pc = "open", !.blob = idb[fileKey(click.fileId)]]
                            ELSE [click EXCEPT !.pc = "download"]
                /\ UNCHANGED downloadProgress
    /\ UNCHANGED <<file, currentPageIndex, isLoading, error, pageUrls,
                   currentFileId, viewMode, localStorage, loaderVars, asyncVars, trip,
                   cacheCalls>>

\* blob = await service.downloadFile(fileId, onProgress)
HandlerDownload ==
    /\ click.pc = "download"
    /\ \/ HandlerFails
       \/ /\ click' = [click EXCEPT !.pc = "saveFile", !.downloaded = TRUE,
                                    !.blob = Blob(click.fileId, SizeOf(click.fileId))]
          /\ downloadProgress' = IF click.provider = "box" THEN 100 ELSE downloadProgress
    /\ UNCHANGED <<cacheVars, file, currentPageIndex, isLoading, error, pageUrls,
                   currentFileId, viewMode, localStorage, loaderVars, asyncVars, trip>>

\* await cacheService.saveFile(fileId, fileName, blob)
HandlerSaveFile ==
    /\ click.pc = "saveFile"
    /\ \E t \in ClockValues :
        /\ now' = t
        /\ \/ \E failedAwait \in FailedAwaits :
                /\ ~ExceedsLimit(click.blob.size)
                /\ idb' = saveFileThrows(idb, click.fileId, FileNameOf(click.fileId),
                                         click.blob, t, failedAwait)
                /\ lastOp' = OpRecord("saveFile throws", click.fileId, click.blob.size,
                                      FALSE, <<>>)
                /\ HandlerFails
           \/ LET r == saveFile(idb, click.fileId, FileNameOf(click.fileId), click.blob, t)
              IN  /\ idb' = r.db
                  /\ lastOp' = OpRecord("saveFile", click.fileId, click.blob.size,
                                        r.ret, r.evicted)
                  /\ click' = [click EXCEPT !.pc = "open"]
                  /\ UNCHANGED downloadProgress
    /\ UNCHANGED <<file, currentPageIndex, isLoading, error, pageUrls,
                   currentFileId, viewMode, localStorage, loaderVars, asyncVars, trip,
                   cacheCalls>>

\* setDownloadProgress(100); setCurrentFileId(fileId); await loadFile(blob, fileName)
HandlerOpen ==
    /\ click.pc = "open"
    /\ OpenDocument(click.fileId, click.blob, FileNameOf(click.fileId))
    /\ click' = [click EXCEPT !.pc = "loadFile", !.opened = TRUE]
    /\ downloadProgress' = IF click.provider = "box" THEN 100 ELSE downloadProgress
    /\ UNCHANGED <<cacheVars, trip>>

\* navigate('/viewer') and the finally block, once loadFile has returned.
HandlerNavigate ==
    /\ click.pc = "loadFile"
    /\ loads = <<>>
    /\ click' = [click EXCEPT !.pc = "done", !.navigated = TRUE]
    /\ downloadProgress' = IF click.provider = "box" THEN -1 ELSE downloadProgress
    /\ UNCHANGED <<cacheVars, file, currentPageIndex, isLoading, error, pageUrls,
                   currentFileId, viewMode, localStorage, loaderVars, asyncVars, trip>>

(***************************************************************************)
(* Initial states                                                          *)
(***************************************************************************)
EmptyIdb == [k \in {} |-> Null]

EmptyStorage == [k \in {} |-> Null]

InitCacheService ==
    /\ idb = EmptyIdb
    /\ now = 0
    /\ lastOp = OpRecord("none", "", 0, FALSE, <<>>)
    /\ cacheCalls = <<>>

\* The store as create() builds it over the localStorage ls, with nothing loaded.
InitViewer(ls) ==
    /\ file = NoFile
    /\ currentPageIndex = 0
    /\ isLoading = FALSE
    /\ error = Null
    /\ pageUrls = NoUrls
    /\ downloadProgress = -1
    /\ currentFileId = Null
    /\ viewMode = OrElse(LsGet(ls, "viewer_viewMode"), "horizontal")
    /\ localStorage = ls
    /\ currentLoader = Null
    /\ zipLoader = ZipUnloaded
    /\ pdfLoader = PdfUnloaded
    /\ loads = <<>>
    /\ decodes = <<>>
    /\ effectPending = FALSE
    /\ liveUrls = {}

(***************************************************************************)
(* SpecCache: the cache service under any sequence of completed cacheCalls.     *)
(***************************************************************************)
InitCache ==
    /\ InitCacheService
    /\ InitViewer(EmptyStorage)
    /\ click = ClickIdle
    /\ trip = TripIdle

SaveFile(fileId, size) ==
    \E t \in ClockValues :
        LET r == saveFile(idb, fileId, FileNameOf(fileId), Blob(fileId, size), t)
        IN  /\ idb' = r.db
            /\ now' = t
            /\ lastOp' = OpRecord("saveFile", fileId, size, r.ret, r.evicted)
            /\ UNCHANGED <<cacheCalls, viewerVars, driverVars>>

GetFile(fileId) ==
    \E t \in ClockValues :
        LET r == getFile(idb, fileId, t)
        IN  /\ idb' = r.db
            /\ now' = t
            /\ lastOp' = OpRecord("getFile", fileId, 0, r.hit, <<>>)
            /\ UNCHANGED <<cacheCalls, viewerVars, driverVars>>

ClearAll ==
    /\ idb' = clearAll(idb)
    /\ now' \in ClockValues
    /\ lastOp' = OpRecord("clearAll", "", 0, TRUE, getMeta(idb).files)
    /\ UNCHANGED <<cacheCalls, viewerVars, driverVars>>

NextCache ==
    \/ \E fileId \in FileIds, size \in BlobSizes : SaveFile(fileId, size)
    \/ \E fileId \in FileIds : GetFile(fileId)
    \/ ClearAll

SpecCache == InitCache /\ [][NextCache]_vars

(***************************************************************************)
(* SpecRace: saveFile and getFile calls that overlap. A call runs from one *)
(* await to the next in one step; up to MaxCalls cacheCalls are suspended at a  *)
(* time, and any of them may be the next to resume.                        *)
(***************************************************************************)
\* The files saved and read, and their size: the second file saved needs the room
\* of the first.
RaceFiles == {"A", "B"}

RaceSizes == {300 * MiB}

\* A call suspended at the await named pc, with its local variables: meta is
\* the call's copy of the metadata, sorted the entries its eviction loop has
\* still to visit.
Call(op, fileId, blob, pc) ==
    [op |-> op, fileId |-> fileId, blob |-> blob, pc |-> pc,
     meta |-> <<>>, sorted |-> <<>>, freed |-> 0, needed |-> 0, evicted |-> <<>>]

Resume(i, call) == cacheCalls' = [cacheCalls EXCEPT ![i] = call]

Return(i, ret) ==
    /\ cacheCalls' = RemoveAt(cacheCalls, i)
    /\ lastOp' = OpRecord(cacheCalls[i].op, cacheCalls[i].fileId, cacheCalls[i].blob.size, ret,
                          cacheCalls[i].evicted)

\* meta.files.push({ fileId, fileName, totalSize, lastAccessed: Date.now() })
Pushed(call, files, t) ==
    Append(files, [fileId |-> call.fileId, fileName |-> FileNameOf(call.fileId),
                   totalSize |-> call.blob.size, lastAccessed |-> t])

\* saveFile(fileId, fileName, blob) up to await this.getMeta().
SaveBegins(fileId, size) ==
    /\ Len(cacheCalls) < MaxCalls
    /\ ~ExceedsLimit(size)
    /\ cacheCalls' = Append(cacheCalls, Call("saveFile", fileId, Blob(fileId, size), "getMeta"))
    /\ UNCHANGED <<idb, now, lastOp, viewerVars, driverVars>>

\* getFile(fileId) up to await get(this.fileKey(fileId)).
GetBegins(fileId) ==
    /\ Len(cacheCalls) < MaxCalls
    /\ cacheCalls' = Append(cacheCalls, Call("getFile", fileId, NoBlob, "get"))
    /\ UNCHANGED <<idb, now, lastOp, viewerVars, driverVars>>

\* saveFile from the metadata it read to its next await: the del of the first
\* entry to evict, or saveMeta.
SaveReadsMeta(i) ==
    /\ cacheCalls[i].op = "saveFile"
    /\ cacheCalls[i].pc = "getMeta"
    /\ \E t \in ClockValues :
        LET call     == cacheCalls[i]
            files    == getMeta(idb).files
            existing == FindIndex(files, call.fileId)
            total    == SumSizes(files)
        IN  /\ IF existing >= 1
               THEN /\ Resume(i, [call EXCEPT
                            !.pc = "saveMeta",
                            !.meta = [files EXCEPT
                                ![existing] = Updated(files[existing], call.blob.size, t)]])
                    /\ now' = t
               ELSE IF total + call.blob.size <= CACHE_LIMIT_BYTES
               THEN /\ Resume(i, [call EXCEPT !.pc = "saveMeta",
                                              !.meta = Pushed(call, files, t)])
                    /\ now' = t
               ELSE /\ Resume(i, [call EXCEPT
                            !.pc = "del",
                            !.meta = files,
                            !.sorted = SortOldestFirst(files),
                            !.needed = total + call.blob.size - CACHE_LIMIT_BYTES])
                    /\ UNCHANGED now
    /\ UNCHANGED <<idb, lastOp, viewerVars, driverVars>>

\* One round of the loop of evictIfNeeded, from await del(...) to the next await.
SaveEvicts(i) ==
    /\ cacheCalls[i].op = "saveFile"
    /\ cacheCalls[i].pc = "del"
    /\ \E t \in ClockValues :
        LET call   == cacheCalls[i]
            entry  == Head(call.sorted)
            idx    == FindIndex(call.meta, entry.fileId)
            files  == IF idx >= 1 THEN Splice(call.meta, idx) ELSE call.meta
            freed  == call.freed + entry.totalSize
            next   == [call EXCEPT !.meta = files, !.sorted = Tail(call.sorted),
                                   !.freed = freed, !.evicted = Append(@, entry)]
        IN  /\ idb' = IdbDel(idb, fileKey(entry.fileId))
            /\ IF Tail(call.sorted) = <<>> \/ freed >= call.needed
               THEN /\ Resume(i, [next EXCEPT !.pc = "saveMeta",
                                              !.meta = Pushed(call, files, t)])
                    /\ now' = t
               ELSE /\ Resume(i, next)
                    /\ UNCHANGED now
    /\ UNCHANGED <<lastOp, viewerVars, driverVars>>

\* await this.saveMeta(meta) of saveFile.
SaveWritesMeta(i) ==
    /\ cacheCalls[i].op = "saveFile"
    /\ cacheCalls[i].pc = "saveMeta"
    /\ idb' = saveMeta(idb, [files |-> cacheCalls[i].meta])
    /\ Resume(i, [cacheCalls[i] EXCEPT !.pc = "set"])
    /\ UNCHANGED <<now, lastOp, viewerVars, driverVars>>

\* await set(this.fileKey(fileId), blob); return true
SaveSetsPayload(i) ==
    /\ cacheCalls[i].op = "saveFile"
    /\ cacheCalls[i].pc = "set"
    /\ idb' = IdbSet(idb, fileKey(cacheCalls[i].fileId), cacheCalls[i].blob)
    /\ Return(i, TRUE)
    /\ UNCHANGED <<now, viewerVars, driverVars>>

\* getFile from the payload it read: return null on a miss, else getMeta.
GetReadsPayload(i) ==
    /\ cacheCalls[i].op = "getFile"
    /\ cacheCalls[i].pc = "get"
    /\ IF fileKey(cacheCalls[i].fileId) \in DOMAIN idb
       THEN /\ Resume(i, [cacheCalls[i] EXCEPT !.pc = "getMeta",
                                          !.blob = idb[fileKey(cacheCalls[i].fileId)]])
            /\ UNCHANGED lastOp
       ELSE Return(i, FALSE)
    /\ UNCHANGED <<idb, now, viewerVars, driverVars>>

\* getFile from the metadata it read: fileMeta.lastAccessed = Date.now() and
\* saveMeta when the entry is found, else return blob.
GetReadsMeta(i) ==
    /\ cacheCalls[i].op = "getFile"
    /\ cacheCalls[i].pc = "getMeta"
    /\ LET files == getMeta(idb).files
           idx   == FindIndex(files, cacheCalls[i].fileId)
       IN  IF idx >= 1
           THEN \E t \in ClockValues :
                    /\ Resume(i, [cacheCalls[i] EXCEPT
                            !.pc = "saveMeta",
                            !.meta = [files EXCEPT ![idx].lastAccessed = t]])
                    /\ now' = t
                    /\ UNCHANGED lastOp
           ELSE /\ Return(i, TRUE)
                /\ UNCHANGED now
    /\ UNCHANGED <<idb, viewerVars, driverVars>>

\* await this.saveMeta(meta) of getFile; return blob
GetWritesMeta(i) ==
    /\ cacheCalls[i].op = "getFile"
    /\ cacheCalls[i].pc = "saveMeta"
    /\ idb' = saveMeta(idb, [files |-> cacheCalls[i].meta])
    /\ Return(i, TRUE)
    /\ UNCHANGED <<now, viewerVars, driverVars>>

NextRace ==
    \/ \E fileId \in RaceFiles, size \in RaceSizes : SaveBegins(fileId, size)
    \/ \E fileId \in RaceFiles : GetBegins(fileId)
    \/ \E i \in 1..Len(cacheCalls) : SaveReadsMeta(i)
    \/ \E i \in 1..Len(cacheCalls) : SaveEvicts(i)
    \/ \E i \in 1..Len(cacheCalls) : SaveWritesMeta(i)
    \/ \E i \in 1..Len(cacheCalls) : SaveSetsPayload(i)
    \/ \E i \in 1..Len(cacheCalls) : GetReadsPayload(i)
    \/ \E i \in 1..Len(cacheCalls) : GetReadsMeta(i)
    \/ \E i \in 1..Len(cacheCalls) : GetWritesMeta(i)

SpecRace == InitCache /\ [][NextRace]_vars

(***************************************************************************)
(* SpecLegacy: cleanupLegacyPageCache over a store that an earlier version *)
(* of the application left keys in, next to saveFile, getFile and          *)
(* clearAll. The cleanup is suspended at keys() and at each del().         *)
(***************************************************************************)
\* Keys found in the store at start: two per-page keys of the earlier version and
\* a key of another owner whose name begins alike.
LegacyKeys == {"page:A:0", "page:B:1", "pages"}

LegacyFiles == {"A", "B"}

LegacySizes == {300 * MiB}

InitLegacy ==
    /\ \E present \in SUBSET LegacyKeys : idb = [k \in present |-> "legacy"]
    /\ now = 0
    /\ lastOp = OpRecord("none", "", 0, FALSE, <<>>)
    /\ cacheCalls = <<>>
    /\ InitViewer(EmptyStorage)
    /\ click = ClickIdle
    /\ trip = TripIdle

\* cleanupLegacyPageCache() is called and awaits keys().
CleanupCalled ==
    /\ Len(cacheCalls) < MaxCalls
    /\ cacheCalls' = Append(cacheCalls, Call("cleanupLegacyPageCache", "", NoBlob, "keys"))
    /\ UNCHANGED <<idb, now, lastOp, viewerVars, driverVars>>

\* keys() resolves: the loop skips every other key and awaits del() of the first
\* legacy key, in the order keys() returned them; without one the call returns.
CleanupReadsKeys(i) ==
    /\ cacheCalls[i].op = "cleanupLegacyPageCache"
    /\ cacheCalls[i].pc = "keys"
    /\ LET found == {key \in DOMAIN idb : IsLegacyPageKey(key)}
       IN  IF found = {}
           THEN Return(i, TRUE)
           ELSE /\ \E allKeys \in [1..Cardinality(found) -> found] :
                    /\ Range(allKeys) = found
                    /\ Resume(i, [cacheCalls[i] EXCEPT !.pc = "del", !.sorted = allKeys])
                /\ UNCHANGED lastOp
    /\ UNCHANGED <<idb, now, viewerVars, driverVars>>

\* del(key) resolves: the next legacy key, or the end of the loop.
CleanupDeletes(i) ==
    /\ cacheCalls[i].op = "cleanupLegacyPageCache"
    /\ cacheCalls[i].pc = "del"
    /\ idb' = del(idb, Head(cacheCalls[i].sorted))
    /\ IF Len(cacheCalls[i].sorted) = 1
       THEN Return(i, TRUE)
       ELSE /\ Resume(i, [cacheCalls[i] EXCEPT !.sorted = Tail(@)])
            /\ UNCHANGED lastOp
    /\ UNCHANGED <<now, viewerVars, driverVars>>

NextLegacy ==
    \/ CleanupCalled
    \/ \E i \in 1..Len(cacheCalls) : CleanupReadsKeys(i)
    \/ \E i \in 1..Len(cacheCalls) : CleanupDeletes(i)
    \/ \E fileId \in LegacyFiles, size \in LegacySizes : SaveFile(fileId, size)
    \/ \E fileId \in LegacyFiles : GetFile(fileId)
    \/ ClearAll

SpecLegacy == InitLegacy /\ [][NextLegacy]_vars

(***************************************************************************)
(* SpecLibrary: the Library view opening cloud files through the cache,    *)
(* with a persistent store that may fail any call.                         *)
(***************************************************************************)
LoadFileSettles ==
    /\ \E i \in 1..Len(loads) : LoadFileSettle(i)
    /\ UNCHANGED <<cacheVars, driverVars>>

Providers == {"google-drive", "box"}

\* The Viewer's close button, once the handler has navigated to it.
ViewerCloses ==
    /\ click.pc = "done"
    /\ click.navigated
    /\ CloseFile
    /\ click' = ClickIdle
    /\ UNCHANGED <<cacheVars, trip>>

NextLibrary ==
    \/ \E provider \in Providers, fileId \in FileIds : ClickFile(provider, fileId)
    \/ HandlerGetFile
    \/ HandlerDownload
    \/ HandlerSaveFile
    \/ HandlerOpen
    \/ LoadFileSettles
    \/ HandlerNavigate
    \/ ViewerCloses

SpecLibrary == InitCache /\ [][NextLibrary]_vars

(***************************************************************************)
(* SpecStore: the store under its callers (open, close, navigation).       *)
(* SpecViewer: the Viewer on an open document, with the usePageLoader      *)
(* effect and its decodes.                                                 *)
(***************************************************************************)
\* Values found under a bookmark key when the application starts.
PriorBookmarks == {Null, "abc", "-1", "2"}

PriorStorage(bookmark) ==
    [k \in (IF bookmark = Null THEN {} ELSE {BookmarkKey("B"), BookmarkKey("D.cbz")})
        |-> bookmark]

InitStore ==
    /\ InitCacheService
    /\ \E bookmark \in PriorBookmarks : InitViewer(PriorStorage(bookmark))
    /\ click = ClickIdle
    /\ trip = TripIdle

\* The view mode a previous session left in localStorage.
PriorViewModes == {Null, "vertical"}

\* The Viewer mounted on document A, which the Library has opened and whose
\* loadFile has settled: at the page the stored bookmark restored, nothing
\* decoded yet.
ViewerDocument == "A"

InitViewerSpec ==
    /\ InitCacheService
    /\ click = ClickIdle
    /\ trip = TripIdle
    /\ \E mode \in PriorViewModes, page \in 0..(PagesOf(ViewerDocument) - 1) :
        LET blob == Blob(ViewerDocument, SizeOf(ViewerDocument))
            r    == ZipLoadFile(ZipUnloaded, blob)
            ls   == [k \in (IF mode = Null THEN {} ELSE {"viewer_viewMode"})
                            \cup (IF page = 0 THEN {} ELSE {BookmarkKey(ViewerDocument)})
                        |-> IF k = "viewer_viewMode" THEN mode ELSE NumberToString(page)]
        IN  /\ file = r.file
            /\ currentPageIndex = RestoredIndex(ls, ViewerDocument, r.file)
            /\ isLoading = FALSE
            /\ error = Null
            /\ pageUrls = NoUrls
            /\ downloadProgress = -1
            /\ currentFileId = ViewerDocument
            /\ viewMode = OrElse(LsGet(ls, "viewer_viewMode"), "horizontal")
            /\ localStorage = ls
            /\ currentLoader = "zip"
            /\ zipLoader = r.state
            /\ pdfLoader = PdfUnloaded
            /\ loads = <<>>
            /\ decodes = <<>>
            /\ effectPending = TRUE
            /\ liveUrls = {}

\* A cloud file opened from the Library, with the blob of its download.
OpenCloud(fileId) ==
    /\ OpenDocument(fileId, Blob(fileId, SizeOf(fileId)), FileNameOf(fileId))
    /\ UNCHANGED <<downloadProgress, cacheVars, driverVars>>

\* handleFileChange: setCurrentFileId(file.name); loadFile(file, file.name)
OpenLocal(name) ==
    /\ OpenDocument(name, LocalFile(name), name)
    /\ UNCHANGED <<downloadProgress, cacheVars, driverVars>>

Closes ==
    /\ CloseFile
    /\ UNCHANGED <<cacheVars, driverVars>>

\* The Viewer's controls.
UserSetsPage(index) ==
    /\ SetPage(index)
    /\ UNCHANGED <<cacheVars, driverVars>>

UserNextPage ==
    /\ NextPage
    /\ UNCHANGED <<cacheVars, driverVars>>

UserPrevPage ==
    /\ PrevPage
    /\ UNCHANGED <<cacheVars, driverVars>>

UserSetsViewMode(mode) ==
    /\ SetViewMode(mode)
    /\ UNCHANGED <<cacheVars, driverVars>>

\* The arguments of setPage in SpecStore: every index of its documents and one
\* beyond each end.
StoreSetPageArguments == (-1)..3

NextStore ==
    \/ \E fileId \in {"B", "C"} : OpenCloud(fileId)
    \/ \E name \in LocalFiles : OpenLocal(name)
    \/ LoadFileSettles
    \/ Closes
    \/ \E index \in StoreSetPageArguments : UserSetsPage(index)
    \/ UserNextPage
    \/ UserPrevPage

SpecStore == InitStore /\ [][NextStore]_vars

\* SpecNavigate: the store under a user who opens one file at a time (the next
\* open waits for the load before it to settle), leaves the Viewer with or
\* without closeFile, and navigates.
OpensNext ==
    /\ loads = <<>>
    /\ \/ \E fileId \in {"B", "C"} : OpenCloud(fileId)
       \/ \E name \in LocalFiles : OpenLocal(name)

NextNavigate ==
    \/ OpensNext
    \/ LoadFileSettles
    \/ Closes
    \/ \E index \in StoreSetPageArguments : UserSetsPage(index)
    \/ UserNextPage
    \/ UserPrevPage

SpecNavigate == InitStore /\ [][NextNavigate]_vars

\* The arguments of setPage in SpecViewer: the first page of the 4-page document,
\* one inside it and one beyond each end.
ViewerSetPageArguments == {-1, 0, 2, 4}

PageResolves == \E d \in DOMAIN decodes : DecodeResolves(d)

PageRejects == \E d \in DOMAIN decodes : DecodeRejects(d)

NextViewer ==
    \/ \E index \in ViewerSetPageArguments : UserSetsPage(index)
    \/ UserNextPage
    \/ UserPrevPage
    \/ \E mode \in {"horizontal", "vertical"} : UserSetsViewMode(mode)
    \/ RunEffect
    \/ PageResolves
    \/ PageRejects

SpecViewer == InitViewerSpec /\ [][NextViewer]_vars

(***************************************************************************)
(* SpecRoundTrip: a user opens a document from the Library, may call       *)
(* setPage once, closes the Viewer and opens the same document again.      *)
(***************************************************************************)
TripDocuments == {"A", "B"} \cup LocalFiles

\* The Library opens document fileId: a local File under its name, a cloud file
\* under its id with the blob of its download.
LibraryOpens(fileId) ==
    IF fileId \in LocalFiles
    THEN OpenDocument(fileId, LocalFile(fileId), fileId)
    ELSE OpenDocument(fileId, Blob(fileId, SizeOf(fileId)), FileNameOf(fileId))

TripOpen(fileId) ==
    /\ trip.pc = "idle"
    /\ LibraryOpens(fileId)
    /\ trip' = [trip EXCEPT !.pc = "loading", !.fileId = fileId]
    /\ UNCHANGED <<downloadProgress, cacheVars, click>>

TripLoaded ==
    /\ trip.pc = "loading"
    /\ LoadFileSettle(1)
    /\ trip' = [trip EXCEPT !.pc = "viewing"]
    /\ UNCHANGED <<cacheVars, click>>

TripSetPage(index) ==
    /\ trip.pc = "viewing"
    /\ SetPage(index)
    /\ trip' = [trip EXCEPT !.pc = "paged", !.paged = TRUE, !.k = index]
    /\ UNCHANGED <<cacheVars, click>>

TripClose ==
    /\ trip.pc \in {"viewing", "paged"}
    /\ CloseFile
    /\ trip' = [trip EXCEPT !.pc = "closed"]
    /\ UNCHANGED <<cacheVars, click>>

TripReopen ==
    /\ trip.pc = "closed"
    /\ LibraryOpens(trip.fileId)
    /\ trip' = [trip EXCEPT !.pc = "reloading"]
    /\ UNCHANGED <<downloadProgress, cacheVars, click>>

TripReloaded ==
    /\ trip.pc = "reloading"
    /\ LoadFileSettle(1)
    /\ trip' = [trip EXCEPT !.pc = "reopened"]
    /\ UNCHANGED <<cacheVars, click>>

\* The arguments of setPage in SpecRoundTrip: every index of the longest document
\* and one beyond each end.
TripSetPageArguments == (-1)..4

NextRoundTrip ==
    \/ \E fileId \in TripDocuments : TripOpen(fileId)
    \/ TripLoaded
    \/ \E index \in TripSetPageArguments : TripSetPage(index)
    \/ TripClose
    \/ TripReopen
    \/ TripReloaded

SpecRoundTrip == InitStore /\ [][NextRoundTrip]_vars

(***************************************************************************)
(* SpecPass: one scheduling pass of usePageLoader. The Viewer mounts on the *)
(* open document with an empty map, the user does nothing and every decode *)
(* succeeds; the effect re-runs after each setPageUrl.                      *)
(***************************************************************************)
NextPass ==
    \/ RunEffect
    \/ PageResolves

SpecPass == InitViewerSpec /\ [][NextPass]_vars

\* SpecPassFair: the same in horizontal mode, with the scheduling the claim
\* about convergence assumes: React runs an effect whose dependencies changed,
\* and every getPage call in flight resolves.
InitPassFair ==
    /\ InitViewerSpec
    /\ viewMode = "horizontal"

SpecPassFair ==
    /\ InitPassFair
    /\ [][NextPass]_vars
    /\ WF_vars(RunEffect)
    /\ WF_vars(PageResolves)

(***************************************************************************)
(* SpecReplace: the Viewer on document A while its pages are decoded; the  *)
(* user closes A, or opens the picked file D.cbz in its place, at any      *)
(* moment, also while getPage calls are in flight. The browser profile is  *)
(* fresh: no bookmark and no view mode are stored.                         *)
(***************************************************************************)
InitReplace ==
    /\ InitViewerSpec
    /\ localStorage = EmptyStorage

ReplacingDocument == "D.cbz"

ClosesViewerDocument ==
    /\ currentFileId = ViewerDocument
    /\ Closes

ReplacesViewerDocument ==
    /\ currentFileId = ViewerDocument
    /\ OpenLocal(ReplacingDocument)

NextReplace ==
    \/ RunEffect
    \/ PageResolves
    \/ PageRejects
    \/ ClosesViewerDocument
    \/ ReplacesViewerDocument
    \/ LoadFileSettles

SpecReplace == InitReplace /\ [][NextReplace]_vars

(***************************************************************************)
(* SpecCleanup: cleanupOldPages applied to a map of resolved pages of an   *)
(* archive of MaxPage + 1 images. The map holds a run of pages, with or    *)
(* without a gap behind the first; the centre is the current page and the  *)
(* distance the one of the view mode, as the effect passes them.           *)
(***************************************************************************)
LongArchive ==
    [Blob("A", SizeOf("A")) EXCEPT
        !.pages = MaxPage + 1,
        !.entries = [k \in 1..(MaxPage + 1) |-> Entry(NumberToString(k) \o ".jpg")]]

LongArchiveLoaded == ZipLoadFile(ZipUnloaded, LongArchive)

InitCleanup ==
    /\ InitCacheService
    /\ click = ClickIdle
    /\ trip = TripIdle
    /\ \E lo \in 0..MaxPage, hi \in (-1)..MaxPage, gap \in BOOLEAN,
          c \in 0..MaxPage, mode \in {"horizontal", "vertical"} :
        LET r    == LongArchiveLoaded
            keys == (lo..hi) \ (IF gap THEN {lo + 1} ELSE {})
        IN  /\ file = r.file
            /\ currentPageIndex = c
            /\ isLoading = FALSE
            /\ error = Null
            /\ pageUrls = [i \in keys |-> [index |-> i, src |-> "A", n |-> 0]]
            /\ downloadProgress = -1
            /\ currentFileId = "A"
            /\ viewMode = mode
            /\ localStorage = EmptyStorage
            /\ currentLoader = "zip"
            /\ zipLoader = r.state
            /\ pdfLoader = PdfUnloaded
            /\ loads = <<>>
            /\ decodes = <<>>
            /\ effectPending = FALSE
            /\ liveUrls = {[index |-> i, src |-> "A", n |-> 0] : i \in keys}

\* cleanupOldPages(currentPageIndex, cleanupDistance), as the effect calls it; a
\* new map in the store makes the effect run again.
CleanupOldPages ==
    LET c == cleanupOldPages(pageUrls, currentPageIndex, CleanupDistance(viewMode))
    IN  /\ pageUrls' = c.pageUrls
        /\ liveUrls' = liveUrls \ c.revoked
        /\ effectPending' = (effectPending \/ c.changed)
        /\ UNCHANGED <<file, currentPageIndex, isLoading, error, downloadProgress,
                       currentFileId, viewMode, localStorage, loaderVars, loads, decodes,
                       cacheVars, driverVars>>

NextCleanup == CleanupOldPages

SpecCleanup == InitCleanup /\ [][NextCleanup]_vars

(***************************************************************************)
(* SpecRoute: FileLoader.loadFile over files of any name and type. A file  *)
(* is opened when no load is in flight, with or without closing the one    *)
(* before; its content is a PDF or an archive whatever its name says.      *)
(***************************************************************************)
\* The name of the File ("" for a Blob), its type, and the fileName passed.
RouteNames == {"", "a.pdf", "b.PDF", "c.pdf.zip", "pdf"}

RouteTypes == {"", "application/pdf", "application/zip"}

RouteFileNames == {Null, "x.Pdf", "y.cbz"}

RoutedFile(name, type, kind) ==
    [src |-> "doc", size |-> MiB, name |-> name, type |-> type,
     kind |-> kind, pages |-> PagesOf("D.cbz"), entries |-> EntriesOf("D.cbz")]

\* setCurrentFileId(id); loadFile(blob, fileName)
OpenRouted(blob, fileName) ==
    /\ loads = <<>>
    /\ OpenDocument("id", blob, fileName)
    /\ UNCHANGED <<downloadProgress, cacheVars, driverVars>>

OpensRouted ==
    \E name \in RouteNames, type \in RouteTypes, kind \in {"zip", "pdf"},
       fileName \in RouteFileNames :
        OpenRouted(RoutedFile(name, type, kind), fileName)

NextRoute ==
    \/ OpensRouted
    \/ LoadFileSettles
    \/ Closes

SpecRoute == InitCache /\ [][NextRoute]_vars

(***************************************************************************)
(* SpecDecode: getPage under a caller that passes any index, before a file *)
(* is opened, while it loads and once it is loaded. At most MaxInFlight    *)
(* calls of getPage are awaited at once, and each resolves, with its URL   *)
(* handed to setPageUrl, or rejects.                                       *)
(***************************************************************************)
\* The page indices passed to getPage: every page of the documents opened and
\* indices beyond both ends.
DecodeArguments == (-2)..(PagesOf("B") + 1)

\* fileLoader.getPage(index) up to its first await.
CallsGetPage(index) ==
    /\ BagSum(decodes, DOMAIN decodes) < MaxInFlight
    /\ decodes' = BagAdd(decodes,
                         [index |-> index,
                          src |-> FileLoaderGetPage(currentLoader, zipLoader,
                                                    pdfLoader, index).src])
    /\ UNCHANGED <<storeVars, loaderVars, loads, effectPending, liveUrls, cacheVars,
                   driverVars>>

OpensFirst ==
    /\ file = NoFile
    /\ OpensNext

NextDecode ==
    \/ OpensFirst
    \/ LoadFileSettles
    \/ \E index \in DecodeArguments : CallsGetPage(index)
    \/ PageResolves
    \/ PageRejects

SpecDecode == InitCache /\ [][NextDecode]_vars

(***************************************************************************)
(* SpecScroll: the Viewer in horizontal mode on the long archive, opened   *)
(* at its first page with an empty map. The reader turns to the next page  *)
(* each time the pass for the page shown is over: no decode in flight, and *)
(* the effect has run since the last change. Every decode succeeds.        *)
(***************************************************************************)
InitScroll ==
    /\ InitCacheService
    /\ click = ClickIdle
    /\ trip = TripIdle
    /\ LET r == LongArchiveLoaded
       IN  /\ file = r.file
           /\ currentPageIndex = 0
           /\ isLoading = FALSE
           /\ error = Null
           /\ pageUrls = NoUrls
           /\ downloadProgress = -1
           /\ currentFileId = "A"
           /\ viewMode = "horizontal"
           /\ localStorage = EmptyStorage
           /\ currentLoader = "zip"
           /\ zipLoader = r.state
           /\ pdfLoader = PdfUnloaded
           /\ loads = <<>>
           /\ decodes = <<>>
           /\ effectPending = TRUE
           /\ liveUrls = {}

TurnsPage ==
    /\ decodes = <<>>
    /\ ~effectPending
    /\ UserNextPage

NextScroll ==
    \/ TurnsPage
    \/ RunEffect
    \/ PageResolves

SpecScroll == InitScroll /\ [][NextScroll]_vars

(***************************************************************************)
(* The loaders over arbitrary files: a picked archive of up to MaxEntries  *)
(* entries or a picked PDF of up to MaxPdfPages pages is opened when       *)
(* nothing is open, its load settles, and it is closed.                    *)
(***************************************************************************)
MaxEntries == 3

MaxPdfPages == 2

ArchiveEntries ==
    {Entry("2.jpg"), Entry("10.jpg"), Entry("1.jpg"), Entry("b.PNG"),
     Entry("note.txt"), Entry("jpg"), Directory("img.jpg/")}

\* The entry lists of an archive: no name twice.
EntryLists ==
    UNION {{l \in [1..n -> ArchiveEntries] :
                \A a, b \in 1..n : a # b => l[a] # l[b]} : n \in 0..MaxEntries}

PickedArchive(entries) ==
    [src |-> "book.zip", size |-> MiB, name |-> "book.zip", type |-> "",
     kind |-> "zip", pages |-> 0, entries |-> entries]

PickedPdf(numPages) ==
    [src |-> "doc.pdf", size |-> MiB, name |-> "doc.pdf", type |-> "application/pdf",
     kind |-> "pdf", pages |-> numPages, entries |-> <<>>]

\* handleFileChange on a picked file, from the Library (no document open).
OpenPicked(picked) ==
    /\ loads = <<>>
    /\ currentLoader = Null
    /\ OpenDocument(picked.name, picked, picked.name)
    /\ UNCHANGED <<downloadProgress, cacheVars, driverVars>>

OpenArchive == \E entries \in EntryLists : OpenPicked(PickedArchive(entries))

OpenPdf == \E numPages \in 0..MaxPdfPages : OpenPicked(PickedPdf(numPages))

ClosesLoaded ==
    /\ loads = <<>>
    /\ currentLoader # Null
    /\ Closes

NextArchive ==
    \/ OpenArchive
    \/ OpenPdf
    \/ LoadFileSettles
    \/ ClosesLoaded

SpecArchive == InitCache /\ [][NextArchive]_vars

(***************************************************************************)
(* Claims about the cache service, under SpecCache.                        *)
(***************************************************************************)
CachedFiles == getMeta(idb).files

\* C1: after any sequence of completed saveFile calls the sum of totalSize over
\* all metadata entries is at most CACHE_LIMIT_BYTES (500 MiB).
C1_TotalWithinLimit == SumSizes(CachedFiles) <= CACHE_LIMIT_BYTES

\* C2: a saveFile whose blob.size exceeds 500 MiB returns false and leaves the
\* metadata record, every payload and every lastAccessed timestamp as they were.
C2_OversizeRefused ==
    [][ (lastOp'.op = "saveFile" /\ lastOp'.size > CACHE_LIMIT_BYTES)
            => (lastOp'.ret = FALSE /\ idb' = idb) ]_vars

C2_Witness ==
    /\ lastOp.op = "saveFile"
    /\ lastOp.size > CACHE_LIMIT_BYTES
    /\ lastOp.ret = FALSE
    /\ Len(CachedFiles) >= 2

\* The step is a saveFile that admits a file id with no metadata entry while
\* currentTotal + newSize exceeds the ceiling.
EvictingSave ==
    /\ lastOp'.op = "saveFile"
    /\ lastOp'.ret = TRUE
    /\ FindIndex(CachedFiles, lastOp'.fileId) = 0
    /\ SumSizes(CachedFiles) + lastOp'.size > CACHE_LIMIT_BYTES

\* C3: when saveFile admits a new id and currentTotal + newSize exceeds the
\* ceiling, entries are deleted oldest lastAccessed first, payload and metadata
\* together, and deletion stops as soon as currentTotal + newSize - freed is within
\* the ceiling: an evicted entry has every older entry evicted with it, nothing is
\* evicted once enough is freed, the other entries stay as they were, and A = 300
\* MiB followed by B = 300 MiB leaves only B with a usage of 300 MiB.
C3_OldestFirstEviction ==
    [][ EvictingSave =>
        LET before  == CachedFiles
            after   == getMeta(idb').files
            ev      == lastOp'.evicted
            evIds   == {ev[k].fileId : k \in 1..Len(ev)}
            newSize == lastOp'.size
            total   == SumSizes(before)
        IN  /\ \A k \in 1..Len(ev) : FindIndex(before, ev[k].fileId) >= 1
            /\ \A i, j \in 1..Len(before) :
                   (before[j].fileId \in evIds
                        /\ before[i].lastAccessed < before[j].lastAccessed)
                   => before[i].fileId \in evIds
            /\ \A k, l \in 1..Len(ev) :
                   k < l => ev[k].lastAccessed <= ev[l].lastAccessed
            /\ \A k \in 1..Len(ev) :
                   total + newSize - SumSizes(SubSeq(ev, 1, k - 1)) > CACHE_LIMIT_BYTES
            /\ total + newSize - SumSizes(ev) <= CACHE_LIMIT_BYTES
            /\ \A id \in evIds :
                   fileKey(id) \notin DOMAIN idb' /\ FindIndex(after, id) = 0
            /\ \A i \in 1..Len(before) :
                   before[i].fileId \notin evIds
                   => /\ FindIndex(after, before[i].fileId) >= 1
                      /\ after[FindIndex(after, before[i].fileId)] = before[i]
                      /\ fileKey(before[i].fileId) \in DOMAIN idb'
                      /\ idb'[fileKey(before[i].fileId)] = idb[fileKey(before[i].fileId)]
            /\ Len(after) = Len(before) - Len(ev) + 1
            /\ (Len(before) = 1 /\ before[1].totalSize = 300 * MiB /\ newSize = 300 * MiB)
                   => /\ Len(after) = 1
                      /\ after[1].fileId = lastOp'.fileId
                      /\ SumSizes(after) = 300 * MiB ]_vars

\* One of two entries was evicted and the other one survived the save.
C3_Witness ==
    /\ lastOp.op = "saveFile"
    /\ lastOp.ret = TRUE
    /\ Len(lastOp.evicted) = 1
    /\ Len(CachedFiles) = 2
    /\ \E i \in 1..2 : CachedFiles[i].lastAccessed > lastOp.evicted[1].lastAccessed
                        /\ CachedFiles[i].fileId # lastOp.fileId

\* C17: clearAll removes every cached payload and the metadata record: after it
\* getUsageMB returns 0, getCachedFiles returns the empty list, and hasFile and
\* getFile report absent for every file id that was cached before.
C17_ClearAllEmptiesCache ==
    [][ lastOp'.op = "clearAll" =>
            /\ getUsageMB(idb') = [whole |-> 0, bytes |-> 0]
            /\ getCachedFiles(idb') = <<>>
            /\ META_KEY \notin DOMAIN idb'
            /\ \A fileId \in FileIds :
                    (fileKey(fileId) \in DOMAIN idb \/ FindIndex(CachedFiles, fileId) >= 1)
                        => /\ ~hasFile(idb', fileId)
                           /\ \A t \in ClockValues' : ~getFile(idb', fileId, t).hit
                           /\ fileKey(fileId) \notin DOMAIN idb' ]_vars

\* clearAll has just removed two cached files.
C17_Witness ==
    /\ lastOp.op = "clearAll"
    /\ Len(lastOp.evicted) = 2
    /\ idb = EmptyIdb

\* C18: getFile on a hit updates the entry's lastAccessed before returning, so a
\* file read after another file was written outlives it: when the cache
\* operation completed last is a hit of getFile(A) on an entry written before
\* the entry of B, the next saveFile that evicts exactly one entry evicts B and
\* keeps A.
C18_ReadEntryOutlivesWritten ==
    [][ \A a, b \in 1..Len(CachedFiles) :
            (/\ lastOp.op = "getFile"
             /\ lastOp.ret = TRUE
             /\ CachedFiles[a].fileId = lastOp.fileId
             /\ a < b
             /\ Len(CachedFiles) = 2
             /\ EvictingSave
             /\ Len(lastOp'.evicted) = 1)
                => /\ lastOp'.evicted[1].fileId = CachedFiles[b].fileId
                   /\ hasFile(idb', lastOp.fileId) ]_vars

\* The metadata and the payloads agree, as they do after any sequence of calls
\* that do not overlap: a file has a metadata entry exactly when it has a payload.
MetadataMatchesPayloads ==
    \A fileId \in FileIds : hasFile(idb, fileId) <=> fileKey(fileId) \in DOMAIN idb

\* C19: every mutating cache operation reads, modifies and writes the metadata
\* as a unit: whenever overlapping saveFile and getFile calls have all returned,
\* the metadata holds the effect of each of them, with no entry of a saved file
\* lost and no entry of an evicted file brought back by a stale copy.
C19_NoLostMetadataUpdate ==
    cacheCalls = <<>> => MetadataMatchesPayloads

\* The step is a saveFile within the ceiling of the given file.
SavesFile(fileId) ==
    /\ lastOp'.op = "saveFile"
    /\ lastOp'.fileId = fileId
    /\ lastOp'.size <= CACHE_LIMIT_BYTES

\* The payloads of the files other than fileId are the same before and after
\* the step.
OtherPayloadsKept(fileId) ==
    /\ DOMAIN idb' \ {META_KEY, fileKey(fileId)} = DOMAIN idb \ {META_KEY, fileKey(fileId)}
    /\ \A key \in DOMAIN idb \ {META_KEY, fileKey(fileId)} : idb'[key] = idb[key]

\* C20: saveFile for a file id that has a metadata entry overwrites the payload,
\* sets totalSize to the new size and refreshes lastAccessed, evicts nothing and
\* leaves the number of entries and every other entry as they were; saveFile for
\* a new id that fits (currentTotal + newSize <= ceiling) adds exactly one entry
\* and deletes nothing.
C20_SaveFileFrame ==
    [][ \A fileId \in FileIds :
            SavesFile(fileId) =>
                LET before == CachedFiles
                    after  == getMeta(idb').files
                    idx    == FindIndex(before, fileId)
                    added  == [fileId |-> fileId, fileName |-> FileNameOf(fileId),
                               totalSize |-> lastOp'.size, lastAccessed |-> now']
                IN  /\ lastOp'.ret = TRUE
                    /\ fileKey(fileId) \in DOMAIN idb'
                    /\ idb'[fileKey(fileId)] = Blob(fileId, lastOp'.size)
                    /\ idx >= 1 =>
                            /\ lastOp'.evicted = <<>>
                            /\ Len(after) = Len(before)
                            /\ after = [before EXCEPT ![idx] = added]
                            /\ OtherPayloadsKept(fileId)
                    /\ (idx = 0 /\ SumSizes(before) + lastOp'.size <= CACHE_LIMIT_BYTES) =>
                            /\ lastOp'.evicted = <<>>
                            /\ after = Append(before, added)
                            /\ OtherPayloadsKept(fileId) ]_vars

\* A file was saved again with a larger size over a full cache: two entries, a
\* total above the ceiling, nothing evicted.
C20_Witness ==
    /\ lastOp.op = "saveFile"
    /\ lastOp.ret = TRUE
    /\ lastOp.evicted = <<>>
    /\ Len(CachedFiles) = 2
    /\ \E i \in 1..2 : /\ CachedFiles[i].fileId = lastOp.fileId
                        /\ CachedFiles[i].lastAccessed = now
                        /\ CachedFiles[i].lastAccessed > 0
    /\ SumSizes(CachedFiles) > CACHE_LIMIT_BYTES

(***************************************************************************)
(* Claims about the legacy keys, under SpecLegacy.                         *)
(***************************************************************************)
\* The store without its 'page:' keys.
WithoutPageKeys(db) ==
    [k \in {x \in DOMAIN db : ~(Len(x) >= 5 /\ SubSeq(x, 1, 5) = "page:")} |-> db[k]]

\* The step is one of cleanupLegacyPageCache: the i-th call resumes or returns.
CleanupSteps(i) ==
    /\ i <= Len(cacheCalls)
    /\ cacheCalls[i].op = "cleanupLegacyPageCache"
    /\ \/ cacheCalls' = RemoveAt(cacheCalls, i)
       \/ /\ Len(cacheCalls') = Len(cacheCalls)
          /\ cacheCalls'[i] # cacheCalls[i]

\* C35: cleanupLegacyPageCache deletes keys that start with 'page:' and no other:
\* every 'file:' payload, the metadata record and every other key keep their
\* value through each of its steps, and when the call returns no key starting
\* with 'page:' is left; hasFile, getFile, getUsageMB and getCachedFiles give the
\* same result on the store with and without its 'page:' keys.
C35_CleanupTakesPageKeysOnly ==
    /\ [](\A fileId \in FileIds :
            /\ hasFile(idb, fileId) = hasFile(WithoutPageKeys(idb), fileId)
            /\ getCachedFiles(idb) = getCachedFiles(WithoutPageKeys(idb))
            /\ getUsageMB(idb) = getUsageMB(WithoutPageKeys(idb))
            /\ \A t \in ClockValues :
                    /\ getFile(idb, fileId, t).hit = getFile(WithoutPageKeys(idb), fileId, t).hit
                    /\ WithoutPageKeys(getFile(idb, fileId, t).db)
                           = getFile(WithoutPageKeys(idb), fileId, t).db)
    /\ [][\A i \in 1..MaxCalls :
            CleanupSteps(i) =>
                /\ WithoutPageKeys(idb') = WithoutPageKeys(idb)
                /\ DOMAIN idb' \subseteq DOMAIN idb
                /\ cacheCalls' = RemoveAt(cacheCalls, i) => WithoutPageKeys(idb') = idb' ]_vars

\* The cleanup has deleted 'page:A:0' and awaits the del of 'page:B:1', while the
\* payload and the entry of file A, saved before, and the key 'pages' are in the
\* store.
C35_Witness ==
    /\ \E i \in 1..Len(cacheCalls) :
            /\ cacheCalls[i].op = "cleanupLegacyPageCache"
            /\ cacheCalls[i].sorted = <<"page:B:1">>
    /\ DOMAIN idb = {"page:B:1", "pages", fileKey("A"), META_KEY}
    /\ hasFile(idb, "A")

(***************************************************************************)
(* Claims about the Library's use of the cache, under SpecLibrary.         *)
(***************************************************************************)
\* C21: the metadata and the payloads agree after every cache operation, whether
\* it completed or failed at one of its awaits: a file id has a metadata entry
\* exactly when a payload is stored under 'file:<id>'.
C21_MetadataAgreesAfterFailure ==
    lastOp.op \in {"saveFile", "saveFile throws", "getFile"} => MetadataMatchesPayloads

\* C4: a failing cache operation counts as a cache miss: once the handler of a
\* click on a cloud file is over and its download has succeeded, the document has
\* been opened (setCurrentFileId and loadFile were called with the downloaded
\* bytes), whether or not a cache call failed.
C4_DownloadedFileIsOpened ==
    (click.pc = "done" /\ click.downloaded) => click.opened

(***************************************************************************)
(* Claims about the page loader, under SpecViewer.                         *)
(***************************************************************************)
\* C5: a page index with a resolved URL or with a decode in flight is not decoded
\* again: per index, the getPage calls in flight plus the resolved entry number
\* at most 1.
C5_NoRepeatedDecode ==
    \A i \in 0..(file.totalPages - 1) :
        InFlight(decodes, i) + (IF i \in DOMAIN pageUrls THEN 1 ELSE 0) <= 1

\* C6: every object URL created and not revoked is the entry of pageUrls for its
\* page index, so at most one URL per index is live.
C6_OneLiveUrlPerIndex ==
    \A u \in liveUrls : u.index \in DOMAIN pageUrls /\ pageUrls[u.index] = u

(***************************************************************************)
(* Claims about one scheduling pass, under SpecPass.                       *)
(***************************************************************************)
\* The window of the claim: the pages of an n-page document within r of page a.
PrefetchWindow(a, r, n) == {i \in 0..(n - 1) : Abs(i - a) <= r}

\* No decode is in flight and the effect has run since the last change.
PassIsOver == decodes = <<>> /\ ~effectPending

\* C7: from an empty map, with every decode succeeding, the pass for active
\* index a and prefetch range r on n pages ends with exactly the pages i,
\* 0 <= i < n and |i - a| <= r, resolved, in whatever order the decodes complete;
\* getPage is never called with an index outside the document; and for a = 10,
\* r = 2, n = 100 the pages requested are 8..12.
C7_PassResolvesWindow ==
    /\ \A d \in DOMAIN decodes : d.index >= 0 /\ d.index < file.totalPages
    /\ DOMAIN pageUrls \subseteq
            PrefetchWindow(currentPageIndex, PrefetchRange(viewMode), file.totalPages)
    /\ PassIsOver =>
            DOMAIN pageUrls =
                PrefetchWindow(currentPageIndex, PrefetchRange(viewMode), file.totalPages)
    /\ {i \in LoadPageCalls(10, 2) : LoadPagePasses([totalPages |-> 100], NoUrls, i)}
            = 8..12

\* A pass at the first page of the 4-page document is over, with pages 0..2
\* resolved and page 3 not, after at least one page was decoded twice.
C7_Witness ==
    /\ PassIsOver
    /\ currentPageIndex = 0
    /\ viewMode = "horizontal"
    /\ DOMAIN pageUrls = {0, 1, 2}
    /\ Cardinality(liveUrls) > 3

\* C31: the map a scheduling pass ends with does not depend on the order in
\* which its getPage calls complete: whatever the order, the keys are the pages
\* of the window, and each key holds a live URL created for that index from the
\* page of that index.
C31_PassResultIgnoresOrder ==
    PassIsOver =>
        /\ DOMAIN pageUrls =
                PrefetchWindow(currentPageIndex, PrefetchRange(viewMode), file.totalPages)
        /\ \A i \in DOMAIN pageUrls :
                /\ pageUrls[i].index = i
                /\ pageUrls[i].src =
                        FileLoaderGetPage(currentLoader, zipLoader, pdfLoader, i).src
                /\ pageUrls[i] \in liveUrls

\* A pass at page 1, whose window is the whole 4-page document, is over; the call
\* for page 3 completed before the first of two calls for page 0.
C31_Witness ==
    /\ PassIsOver
    /\ currentPageIndex = 1
    /\ DOMAIN pageUrls = 0..3
    /\ pageUrls[3].n = 0
    /\ pageUrls[0].n = 1
    /\ Cardinality(liveUrls) = 5

(***************************************************************************)
(* Claims about rejected decodes, under SpecViewer.                        *)
(***************************************************************************)
\* C30: a getPage call that rejects is dropped: the step leaves pageUrls and the
\* store's error as they were and every other call in flight, whose URL is
\* recorded when it resolves; and each run of the effect on an open document
\* starts a getPage call for every page of its window that has no entry, a page
\* whose earlier call was rejected included.
C30_FailedDecodeIsDropped ==
    [][ /\ \A d \in DOMAIN decodes :
            /\ DecodeRejects(d) =>
                    /\ pageUrls' = pageUrls
                    /\ error' = error
                    /\ file' = file
                    /\ \A e \in DOMAIN decodes :
                            InFlight(decodes', e.index) =
                                InFlight(decodes, e.index) - (IF e.index = d.index THEN 1 ELSE 0)
            /\ DecodeResolves(d) =>
                    /\ d.index \in DOMAIN pageUrls'
                    /\ pageUrls'[d.index].src = d.src
        /\ (file # NoFile /\ RunEffect) =>
                \A i \in PrefetchWindow(currentPageIndex, PrefetchRange(viewMode),
                                        file.totalPages) \ DOMAIN pageUrls :
                    InFlight(decodes', i) = InFlight(decodes, i) + 1 ]_vars

\* After a rejected call: no call is in flight and the effect has run, a page of
\* the window has no entry while the active page has one, and no error is set.
C30_Witness ==
    /\ PassIsOver
    /\ error = Null
    /\ currentPageIndex \in DOMAIN pageUrls
    /\ \E i \in PrefetchWindow(currentPageIndex, PrefetchRange(viewMode), file.totalPages) :
            i \notin DOMAIN pageUrls

\* C29: when the document, the page index and the view mode no longer change
\* and every decode succeeds, the scheduler reaches a stable state: from some
\* point on every page of the document within prefetchRange of the active page
\* has a resolved URL, no decode is in flight and the effect has nothing to do.
C29_WindowEventuallyResolved ==
    <>[](/\ PassIsOver
         /\ PrefetchWindow(currentPageIndex, PrefetchRange(viewMode), file.totalPages)
                \subseteq DOMAIN pageUrls)

\* The pass at the last page of the 4-page document is over with pages 1..3
\* resolved.
C29_Witness ==
    /\ PassIsOver
    /\ viewMode = "horizontal"
    /\ currentPageIndex = 3
    /\ DOMAIN pageUrls = 1..3
    /\ Range(pageUrls) \subseteq liveUrls

(***************************************************************************)
(* Claims about the memory held while reading, under SpecScroll.           *)
(***************************************************************************)
\* C28: once navigation has stopped, every decode in flight has completed and
\* the effect has run on the resulting state, every resolved index is within
\* the cleanup distance of the active page, and at most 2 * cleanupDistance + 1
\* handles (object URLs created and not revoked) are held.
C28_HandlesBounded ==
    PassIsOver =>
        /\ \A i \in DOMAIN pageUrls :
                Abs(i - currentPageIndex) <= CleanupDistance(viewMode)
        /\ Cardinality(liveUrls) <= 2 * CleanupDistance(viewMode) + 1

(***************************************************************************)
(* Claims about cleanupOldPages, under SpecCleanup.                        *)
(***************************************************************************)
\* C8: cleanupOldPages(c, d) removes from pageUrls exactly the indices i with
\* |i - c| > d and revokes their URLs, leaves every other entry as it was, changes
\* nothing at all when no index is out of range, and turns {0..20} with c = 10,
\* d = 5 into {5..15}.
C8_CleanupRemovesFarPages ==
    [][ LET c   == currentPageIndex
            d   == CleanupDistance(viewMode)
            far == {i \in DOMAIN pageUrls : Abs(i - c) > d}
        IN  /\ DOMAIN pageUrls' = (DOMAIN pageUrls) \ far
            /\ \A i \in DOMAIN pageUrls' : pageUrls'[i] = pageUrls[i]
            /\ liveUrls' = liveUrls \ {pageUrls[i] : i \in far}
            /\ far = {} => UNCHANGED vars
            /\ (DOMAIN pageUrls = 0..20 /\ c = 10 /\ d = 5) => DOMAIN pageUrls' = 5..15
      ]_vars

\* A cleanup around page 10 at distance 5 has removed pages and left 5..15, their
\* URLs being the only live ones.
C8_Witness ==
    /\ effectPending
    /\ currentPageIndex = 10
    /\ CleanupDistance(viewMode) = 5
    /\ DOMAIN pageUrls = 5..15
    /\ liveUrls = Range(pageUrls)

\* C27: the prefetch range is 2 and the cleanup distance 5 in horizontal mode,
\* 4 and 10 in vertical mode; the range is never larger than the distance, so
\* the cleanup of a pass leaves in place, with a live URL, every resolved page
\* the pass calls loadPage for, the active page among them.
C27_CleanupSparesPrefetchWindow ==
    /\ [](/\ PrefetchRange("horizontal") = 2
          /\ CleanupDistance("horizontal") = 5
          /\ PrefetchRange("vertical") = 4
          /\ CleanupDistance("vertical") = 10
          /\ PrefetchRange(viewMode) <= CleanupDistance(viewMode))
    /\ [][ \A i \in (LoadPageCalls(currentPageIndex, PrefetchRange(viewMode))
                        \cup {currentPageIndex}) \cap DOMAIN pageUrls :
                /\ i \in DOMAIN pageUrls'
                /\ pageUrls'[i] = pageUrls[i]
                /\ pageUrls[i] \in liveUrls' ]_vars

\* A cleanup in vertical mode around page 4 has removed the pages beyond 14 and
\* left 0..14, the window 0..8 of the pass among them.
C27_Witness ==
    /\ effectPending
    /\ viewMode = "vertical"
    /\ currentPageIndex = 4
    /\ DOMAIN pageUrls = 0..14
    /\ \A i \in 0..8 : pageUrls[i] \in liveUrls

(***************************************************************************)
(* Claims about the store, under SpecStore.                                *)
(***************************************************************************)
\* C9: whenever a document is active, 0 <= currentPageIndex <= totalPages - 1,
\* under every interleaving of loadFile (a shorter document and a bookmark
\* restore included), closeFile, setPage with any integer, nextPage and prevPage.
C9_PageIndexInBounds ==
    file # NoFile =>
        /\ 0 <= currentPageIndex
        /\ currentPageIndex <= file.totalPages - 1

\* The 2-page archive is active on its last page while cloud file B is the
\* current identity: its load settled after B was clicked, over a stored bookmark
\* of 2 that the restore refused, and setPage(1) wrote the bookmark of B.
C9_Witness ==
    /\ file # NoFile
    /\ file.totalPages = 2
    /\ currentFileId = "B"
    /\ LsGet(localStorage, BookmarkKey("D.cbz")) = "2"
    /\ LsGet(localStorage, BookmarkKey("B")) = "1"
    /\ currentPageIndex = 1

\* C25: setPage(i) sets currentPageIndex to max(0, min(i, totalPages - 1)) for
\* every integer i and changes nothing when no document is active; nextPage and
\* prevPage change the index by exactly +1 and -1, and leave the whole state
\* unchanged at the last and at the first page.
C25_NavigationClampsAndSteps ==
    [][ /\ \A i \in StoreSetPageArguments :
                UserSetsPage(i) =>
                    IF file = NoFile THEN UNCHANGED vars
                    ELSE currentPageIndex' =
                            (IF i < 0 THEN 0
                             ELSE IF i > file.totalPages - 1 THEN file.totalPages - 1
                             ELSE i)
        /\ UserNextPage =>
                IF file # NoFile /\ currentPageIndex # file.totalPages - 1
                THEN currentPageIndex' = currentPageIndex + 1
                ELSE UNCHANGED vars
        /\ UserPrevPage =>
                IF file # NoFile /\ currentPageIndex # 0
                THEN currentPageIndex' = currentPageIndex - 1
                ELSE UNCHANGED vars ]_vars

\* The 3-page document B was opened with no bookmark stored and is on its last
\* page, which navigation reached and recorded.
C25_Witness ==
    /\ file # NoFile
    /\ file.totalPages = 3
    /\ currentFileId = "B"
    /\ loads = <<>>
    /\ currentPageIndex = 2
    /\ LsGet(localStorage, BookmarkKey("B")) = "2"
    /\ LsGet(localStorage, BookmarkKey("D.cbz")) = Null

\* The step is a call of setPage, nextPage or prevPage that changes the state.
Navigates ==
    \/ \E i \in StoreSetPageArguments : UserSetsPage(i)
    \/ UserNextPage
    \/ UserPrevPage

\* C26: after every setPage, nextPage or prevPage on an active document the
\* value stored under 'bookmark_<key>', with key = currentFileId, or
\* file.fileName when no file identity is set, is the resulting currentPageIndex;
\* no other key of localStorage is written, and the key is the one of the active
\* document, not of a different one.
C26_BookmarkFollowsNavigation ==
    [][ (file # NoFile /\ Navigates) =>
            LET key == IF currentFileId # Null THEN currentFileId ELSE file.fileName
            IN  /\ LsGet(localStorage', BookmarkKey(key)) = NumberToString(currentPageIndex')
                /\ \A k \in DOMAIN localStorage' :
                        k # BookmarkKey(key) =>
                            k \in DOMAIN localStorage /\ localStorage'[k] = localStorage[k]
                /\ currentFileId # Null => PagesOf(currentFileId) = file.totalPages ]_vars

\* The step settles the i-th loadFile call in flight.
Settles(i) == i \in 1..Len(loads) /\ loads' = RemoveAt(loads, i)

\* The page indices a caller may pass to getPage.
GetPageArguments == (-1)..(PagesOf("A") + 1)

BackendState(backend) == IF backend = "pdf" THEN pdfLoader ELSE zipLoader

BackendGetPage(backend, index) ==
    IF backend = "pdf" THEN PdfGetPage(pdfLoader, index) ELSE ZipGetPage(zipLoader, index)

\* Every getPage on the backend rejects.
BackendRefusesAll(backend) ==
    \A index \in GetPageArguments : ~BackendGetPage(backend, index).ok

\* C15: FileLoader.getPage fails with 'No file is currently loaded.' whenever no
\* backend is active (before any loadFile, after unload); after the unload of a
\* backend every getPage on that backend rejects, and a backend on which every
\* getPage rejects stays so until a loadFile on it resolves.
C15_NoPageWithoutDocument ==
    /\ [](currentLoader = Null =>
            \A index \in GetPageArguments :
                FileLoaderGetPage(currentLoader, zipLoader, pdfLoader, index)
                    = PageRefused("No file is currently loaded."))
    /\ [][ \A backend \in {"zip", "pdf"} :
            /\ (currentLoader = backend /\ currentLoader' = Null)
                    => BackendRefusesAll(backend)'
            /\ (/\ BackendState(backend)' # BackendState(backend)
                /\ BackendRefusesAll(backend)
                /\ ~BackendRefusesAll(backend)')
                    => \E i \in 1..Len(loads) :
                            /\ Settles(i)
                            /\ loads[i].loader = backend
                            /\ FacadeLoadResult(loads[i]).ok ]_vars

\* After closeFile no backend is active although the ZIP backend still holds the
\* archive opened before the PDF that was closed.
C15_Witness ==
    /\ currentLoader = Null
    /\ zipLoader.zip # Null
    /\ ~BackendRefusesAll("zip")
    /\ BackendRefusesAll("pdf")
    /\ pdfLoader.fileName # ""
    /\ loads = <<>>

(***************************************************************************)
(* Claims about getPage, under SpecDecode.                                 *)
(***************************************************************************)
\* The number of pages of the document a backend holds.
PageCount(backend) ==
    IF backend = "pdf" THEN (IF pdfLoader.pdfDoc = Null THEN 0 ELSE pdfLoader.numPages)
    ELSE (IF zipLoader.zip = Null THEN 0 ELSE Len(zipLoader.imageEntries))

\* C32: on either backend getPage rejects for every index outside
\* [0, pageCount), negative ones included, and such a call never creates a URL;
\* for a valid index it goes on to decode, and each call that resolves creates a
\* URL of its page that was not live before and leaves every live URL live, so
\* two calls for one index give two distinct URLs.
C32_GetPageRejectsOutOfRange ==
    /\ [](\A backend \in {"zip", "pdf"}, index \in DecodeArguments :
            LET r == BackendGetPage(backend, index)
            IN  IF index < 0 \/ index >= PageCount(backend)
                THEN ~r.ok /\ r.src = Null
                ELSE r.ok /\ r.src # Null)
    /\ [][ /\ ~(liveUrls' \subseteq liveUrls) =>
                \E d \in DOMAIN decodes :
                    /\ d.src # Null
                    /\ decodes' = BagRemove(decodes, d)
                    /\ \E u \in liveUrls' \ liveUrls :
                            /\ u.index = d.index
                            /\ u.src = d.src
                            /\ liveUrls' = liveUrls \cup {u}
           /\ \A d \in DOMAIN decodes :
                (d.src = Null /\ decodes' = BagRemove(decodes, d)) =>
                    liveUrls' = liveUrls /\ pageUrls' = pageUrls ]_vars

\* Two calls of getPage(1) on the PDF backend have resolved: two URLs of page 2
\* are live; a call with index -1 is in flight and can only reject.
C32_Witness ==
    /\ currentLoader = "pdf"
    /\ \E u, v \in liveUrls :
            /\ u # v
            /\ u.index = 1 /\ v.index = 1
            /\ u.src = v.src
            /\ u.src = PdfGetPage(pdfLoader, 1).src
    /\ \E d \in DOMAIN decodes : d.index = -1 /\ d.src = Null

(***************************************************************************)
(* Claims about the loaders, under SpecArchive.                            *)
(***************************************************************************)
\* A qualifying page of an archive: an entry that is no directory and whose name
\* ends in .jpg, .jpeg, .png, .gif or .webp in any letter case.
QualifyingEntry(entry) ==
    /\ ~entry.dir
    /\ \E suffix \in {".jpg", ".jpeg", ".png", ".gif", ".webp"} :
            /\ Len(entry.name) >= Len(suffix)
            /\ ToLowerCase(SubSeq(entry.name, Len(entry.name) - Len(suffix) + 1,
                                  Len(entry.name))) = suffix

\* The number of qualifying pages in a file.
QualifyingPages(blob) ==
    IF blob.kind = "pdf" THEN blob.pages
    ELSE Cardinality({k \in 1..Len(blob.entries) : QualifyingEntry(blob.entries[k])})

\* C14: a load of a file with zero qualifying pages (an archive without an image
\* entry, a PDF of 0 pages) rejects and records no MangaFile; a load that
\* resolves yields a document with totalPages >= 1 and totalPages = the length
\* of pages, which is the number of qualifying pages of the file.
C14_NoEmptyDocument ==
    [][ \A i \in 1..Len(loads) :
            Settles(i) =>
                LET r == FacadeLoadResult(loads[i])
                IN  /\ QualifyingPages(loads[i].blob) = 0
                        => (~r.ok /\ r.file = NoFile /\ file' = file /\ error' # Null)
                    /\ r.ok => /\ r.file.totalPages >= 1
                               /\ r.file.totalPages = Len(r.file.pages)
                               /\ r.file.totalPages = QualifyingPages(loads[i].blob)
                               /\ file' = r.file ]_vars

\* An archive whose only entries are a text file and a directory named like an
\* image was refused, and no document is active.
C14_Witness ==
    /\ error = "No images found in the archive."
    /\ zipLoader.zip = "book.zip"
    /\ zipLoader.imageEntries = <<>>
    /\ file = NoFile
    /\ loads = <<>>

\* The number a name starts with, -1 when it starts with none.
LeadingNumber(name) ==
    IF Len(name) > 0 /\ IsDigit(Char(name, 1)) THEN ParseInt(name).value ELSE -1

\* C16: ZipLoader.loadFile orders the pages by a numeric-aware comparison of the
\* entry names, so that 2.jpg, 10.jpg, 1.jpg become 1.jpg, 2.jpg, 10.jpg, and
\* getPage(i) decodes the i-th entry of that order.
C16_NaturalPageOrder ==
    [][ \A i \in 1..Len(loads) :
            (Settles(i) /\ loads[i].loader = "zip" /\ FacadeLoadResult(loads[i]).ok) =>
                LET listed == loads[i].blob.entries
                    pages  == zipLoader'.imageEntries
                IN  /\ Len(pages) = QualifyingPages(loads[i].blob)
                    /\ Range(pages) = {listed[k].name : k \in
                                          {k \in 1..Len(listed) : QualifyingEntry(listed[k])}}
                    /\ \A a, b \in 1..Len(pages) :
                            (a < b /\ LeadingNumber(pages[a]) >= 0
                                   /\ LeadingNumber(pages[b]) >= 0)
                                => LeadingNumber(pages[a]) <= LeadingNumber(pages[b])
                    /\ EntryNames(listed) = <<"2.jpg", "10.jpg", "1.jpg">>
                            => pages = <<"1.jpg", "2.jpg", "10.jpg">>
                    /\ file'.pages = pages
                    /\ \A k \in 0..(Len(pages) - 1) :
                            ZipGetPage(zipLoader', k)
                                = PageDecoding(zipLoader'.zip \o "/" \o pages[k + 1]) ]_vars

\* The archive listing 2.jpg, 10.jpg, 1.jpg is loaded.
C16_Witness ==
    /\ zipLoader.zip = "book.zip"
    /\ zipLoader.imageEntries = <<"1.jpg", "2.jpg", "10.jpg">>
    /\ file # NoFile
    /\ file.pages = <<"1.jpg", "2.jpg", "10.jpg">>
    /\ currentLoader = "zip"

\* C11: when loadFile fails (the facade's load rejects, the zero-page case
\* included) the store records an error message and no document is active
\* afterwards, also when one was active before.
C11_FailedLoadLeavesNoDocument ==
    [][ \A i \in 1..Len(loads) :
            (Settles(i) /\ ~FacadeLoadResult(loads[i]).ok)
                => (error' # Null /\ file' = NoFile) ]_vars

\* C12: at most one of the two backends holds a loaded document at any time: an
\* open routed to one backend leaves the other unloaded.
C12_OneBackendLoaded ==
    ~(zipLoader.zip # Null /\ pdfLoader.pdfDoc # Null)

\* The pages of the document held by the backend FileLoader.getPage dispatches
\* to.
ActiveBackendPages ==
    IF currentLoader = "pdf" /\ pdfLoader.pdfDoc # Null THEN PdfPageNames(pdfLoader.numPages)
    ELSE IF currentLoader = "zip" /\ zipLoader.zip # Null THEN zipLoader.imageEntries
    ELSE <<>>

\* C13: when the last of the loadFile calls in flight completes successfully, and
\* the facade was not unloaded since the latest open, the store's active document
\* is the one held by the backend currentLoader names, so getPage for the active
\* document goes to the backend that loaded it.
C13_ActiveBackendHoldsDocument ==
    [][ \A i \in 1..Len(loads) :
            (/\ Settles(i)
             /\ FacadeLoadResult(loads[i]).ok
             /\ loads' = <<>>
             /\ currentLoader' # Null)
                => (file' # NoFile /\ ActiveBackendPages' = file'.pages) ]_vars

\* C24: whenever the store holds an active document and no load is in flight,
\* the backend FileLoader.currentLoader names is loaded and holds that document:
\* its pages are the pages of the store's file. A failed open of a second file
\* does not leave the store showing the first document over an unloaded or a
\* different backend.
C24_StoreDocumentIsFacadeDocument ==
    (file # NoFile /\ loads = <<>>) =>
        /\ currentLoader \in {"zip", "pdf"}
        /\ ~BackendRefusesAll(currentLoader)
        /\ ActiveBackendPages = file.pages

(***************************************************************************)
(* Claims about a document closed or replaced while the Viewer decodes,    *)
(* under SpecReplace.                                                      *)
(***************************************************************************)
\* The URL was created for a page of the document the store shows: by the active
\* backend, from the entry that is the page of its index.
DecodedFromActiveDocument(url) ==
    /\ file # NoFile
    /\ FileLoaderGetPage(currentLoader, zipLoader, pdfLoader, url.index).src = url.src
    /\ ActiveBackendPages = file.pages

\* C22: a decode started for a document never records a handle once the document
\* has been closed or replaced: while no document is active pageUrls is empty,
\* and once the load of a new document has settled every entry of pageUrls was
\* decoded from that document, also when getPage calls issued before the close
\* or the open complete afterwards.
C22_NoHandleOfClosedDocument ==
    /\ (file = NoFile /\ loads = <<>>) => pageUrls = NoUrls
    /\ (file # NoFile /\ loads = <<>>) =>
            \A i \in DOMAIN pageUrls : DecodedFromActiveDocument(pageUrls[i])

\* C33: while no document is active, at the start and after closeFile,
\* currentPageIndex is 0 and pageUrls is empty.
C33_IdleStoreIsReset ==
    file = NoFile => (currentPageIndex = 0 /\ pageUrls = NoUrls)

\* The step is the synchronous part of a loadFile call; the step is a closeFile.
LoadFileBegins == Len(loads') = Len(loads) + 1

CloseFileRuns == currentFileId # Null /\ currentFileId' = Null

\* isLoading is true exactly while a loadFile call awaits the loader.
IsLoadingWhileOpening == isLoading <=> loads # <<>>

\* error is null once a loadFile call has succeeded and a non-empty message once
\* one has failed.
ErrorTellsOutcome ==
    [][\A i \in 1..Len(loads) :
            LoadFileSettle(i) =>
                IF FacadeLoadResult(loads[i]).ok
                THEN error' = Null
                ELSE error' # Null /\ error' # "" ]_vars

\* C36: isLoading is true exactly while an open is in progress, so from the start
\* of a loadFile call until the last call in flight has succeeded or failed;
\* error is null after a call that succeeded and a non-empty message after one
\* that failed.
C36_LoadingUntilLastSettles == []IsLoadingWhileOpening /\ ErrorTellsOutcome

(***************************************************************************)
(* Claims about the facade, under SpecRoute.                               *)
(***************************************************************************)
\* The names of SpecRoute that end with '.pdf' in some letter case.
PdfNamed == {"a.pdf", "b.PDF", "x.Pdf"}

\* C34: FileLoader.loadFile makes the PDF backend the active one exactly when the
\* name (the File's name, else the fileName passed) ends with '.pdf' in any
\* letter case or the blob's type is 'application/pdf', and the ZIP backend
\* otherwise; the active backend changes only with a loadFile call or an unload,
\* getPage is answered by the active backend, and unload unloads it and leaves
\* the other backend as it is.
C34_RoutedByNameOrType ==
    /\ [](currentLoader \in {"zip", "pdf"} =>
            \A index \in GetPageArguments :
                FileLoaderGetPage(currentLoader, zipLoader, pdfLoader, index)
                    = BackendGetPage(currentLoader, index))
    /\ [][ /\ LoadFileBegins =>
                \A name \in RouteNames, type \in RouteTypes, kind \in {"zip", "pdf"},
                   fileName \in RouteFileNames :
                    OpenRouted(RoutedFile(name, type, kind), fileName) =>
                        LET given == IF name # "" THEN name
                                     ELSE IF fileName # Null THEN fileName ELSE "id"
                        IN  currentLoader' =
                                (IF given \in PdfNamed \/ type = "application/pdf"
                                 THEN "pdf" ELSE "zip")
           /\ currentLoader' # currentLoader => (LoadFileBegins \/ CloseFileRuns)
           /\ CloseFileRuns =>
                /\ currentLoader' = Null
                /\ \A backend \in {"zip", "pdf"} :
                        IF backend = currentLoader
                        THEN BackendRefusesAll(backend)'
                        ELSE BackendState(backend)' = BackendState(backend) ]_vars

\* A Blob without name and type was passed with the fileName 'x.Pdf': the PDF
\* backend is active and its load is awaited, while the ZIP backend still holds
\* the archive opened before.
C34_Witness ==
    /\ Len(loads) = 1
    /\ loads[1].blob.name = ""
    /\ loads[1].blob.type = ""
    /\ currentLoader = "pdf"
    /\ zipLoader.zip # Null

\* C23: loadFile revokes every URL held in pageUrls and empties the map before
\* it delegates to the facade; closeFile revokes every held URL, unloads the
\* facade and resets file to null, currentPageIndex to 0, error to null,
\* pageUrls to empty and currentFileId to null; and in every reachable state no
\* URL stored in pageUrls has been revoked.
C23_HeldUrlsAreLive ==
    /\ [](Range(pageUrls) \subseteq liveUrls)
    /\ [][ /\ LoadFileBegins =>
                /\ pageUrls' = NoUrls
                /\ liveUrls' = liveUrls \ Range(pageUrls)
                /\ zipLoader' = zipLoader
           /\ CloseFileRuns =>
                /\ liveUrls' = liveUrls \ Range(pageUrls)
                /\ currentLoader' = Null
                /\ BackendRefusesAll(currentLoader)'
                /\ file' = NoFile
                /\ currentPageIndex' = 0
                /\ error' = Null
                /\ pageUrls' = NoUrls ]_vars

\* closeFile ran on a map that held a URL: a page was decoded twice, the URL of
\* the first decode is still live, the URL of the second, which the map held,
\* is not.
C23_Witness ==
    /\ file = NoFile
    /\ currentFileId = Null
    /\ currentLoader = Null
    /\ pageUrls = NoUrls
    /\ decodes = <<>>
    /\ \E u \in liveUrls : u.n = 0 /\ [u EXCEPT !.n = 1] \notin liveUrls

(***************************************************************************)
(* Claims about the bookmark, under SpecRoundTrip.                         *)
(***************************************************************************)
\* C10: after setPage(k) on a document opened under identity F, closeFile,
\* setCurrentFileId(F) and loadFile of the same document, currentPageIndex is k
\* when k is a page of the document; and a reopened document starts at 0 when the
\* value stored for F is out of bounds, negative or not a number.
C10_BookmarkRoundTrip ==
    trip.pc = "reopened" =>
        LET stored == LsGet(localStorage, BookmarkKey(trip.fileId))
        IN  /\ file # NoFile
            /\ (trip.paged /\ 0 <= trip.k /\ trip.k < file.totalPages)
                    => currentPageIndex = trip.k
            /\ (stored # Null /\ (\/ ParseInt(stored).isNaN
                                   \/ ParseInt(stored).value < 0
                                   \/ ParseInt(stored).value >= file.totalPages))
                    => currentPageIndex = 0

\* The 4-page archive A, which had no bookmark, reopens on its last page after
\* setPage(3).
C10_Witness ==
    /\ trip.pc = "reopened"
    /\ trip.fileId = "A"
    /\ trip.paged
    /\ trip.k = 3
    /\ currentPageIndex = 3
    /\ file.totalPages = 4

====
